---- MODULE Spec2Model ----
(***************************************************************************)
(* TaskTrove: the history-tracked task / project / label collections, the *)
(* section ordering of tasks and the task action atoms.                    *)
(*   packages/atoms/src/core/history.ts                                    *)
(*   packages/atoms/src/core/tasks.ts                                      *)
(*   packages/atoms/src/core/labels.ts                                     *)
(* withHistory (jotai-history), the section ordering utilities             *)
(* (data/tasks/ordering), getDefaultSectionId, getEffectiveDueDate and the *)
(* remote mutation atoms are not part of the sources at hand; they are     *)
(* modelled from the design document (sections 4.1, 4.2, 4.3, 6).          *)
(***************************************************************************)
EXTENDS Integers, Sequences, FiniteSets, TLC

VARIABLES
    tasks,            \* tasksAtom: sequence of task records
    projects,         \* projectsAtom: sequence of project records
    labels,           \* labelsAtom: sequence of label records
    tasksHistory,     \* tasksHistoryAtom: [undo, redo] stacks of tasks values
    projectsHistory,  \* projectsHistoryAtom
    labelsHistory,    \* labelsHistoryAtom
    lastOperation,    \* lastOperationAtom: a description, None for null
    nextId,           \* uuidv4 / server id source: next unused id
    today,            \* the calendar day getEffectiveDueDate reads
    sent,             \* last payload handed to updateTasksMutation.mutateAsync
    pendingAdds,      \* addTask calls awaiting their create mutation: the requests in flight
    pendingSections,  \* addTask calls awaiting their sections update (updateProjectsMutation)
    pendingDeletes,   \* deleteTasks calls awaiting their delete mutation
    effects,          \* calls made to the notification scheduler and the remote mutations
    returned,         \* what the derived read called last returned
    inflight,         \* label creations and task updates awaiting their remote mutation
    thrown,           \* whether the last call threw / rejected to its caller
    lastCall,         \* observer: the entry point called last and its arguments
    pushes,           \* observer: values written per history atom (SpecBounded)
    trace,            \* observer: the last calls with the collections before/after
    steps             \* observer: number of calls made so far

progVars == <<tasks, projects, labels, tasksHistory, projectsHistory,
              labelsHistory, lastOperation, nextId, today, sent,
              pendingAdds, pendingSections, pendingDeletes, effects, returned, inflight,
              thrown>>
\* the mutations in flight, the calls to the collaborators and the last read
ioVars == <<pendingAdds, pendingSections, pendingDeletes, effects, returned, inflight>>

vars == <<tasks, projects, labels, tasksHistory, projectsHistory,
          labelsHistory, lastOperation, nextId, today, sent,
          pendingAdds, pendingSections, pendingDeletes, effects, returned, inflight,
          thrown, lastCall, pushes, trace, steps>>

\* ------------------------------------------------------------------------
\* Bounds of the exploration
\* ------------------------------------------------------------------------
MaxSteps == 4        \* calls per behaviour of Spec
MaxSectionSteps == 3 \* calls per behaviour of SpecSections
MaxNewIds == 2       \* tasks and comments created per behaviour
MaxAddSteps == 6     \* calls and responses per behaviour of SpecConcurrentAdd
TraceLen == 4        \* calls remembered by the observer
ExtraPushes == 2     \* pushes beyond the configured depth in SpecBounded

\* ------------------------------------------------------------------------
\* Program constants
\* ------------------------------------------------------------------------
NULL == "null"                          \* null / undefined where an id is expected
None == <<>>                            \* null / undefined of any other optional value
Some(x) == <<x>>                        \* a present optional value
INBOX_PROJECT_ID == "inbox-project"     \* @tasktrove/types/constants
HISTORY_CONFIG == [tasks |-> 50, projects |-> 30, labels |-> 20]

\* ------------------------------------------------------------------------
\* Sequence helpers (Array.prototype semantics)
\* ------------------------------------------------------------------------
Range(s) == {s[i] : i \in DOMAIN s}

Min(a, b) == IF a < b THEN a ELSE b

Max(a, b) == IF a > b THEN a ELSE b

Last(s) == s[Len(s)]

Front(s) == SubSeq(s, 1, Len(s) - 1)

\* s.filter(x => x # e)
Without(s, e) == SelectSeq(s, LAMBDA x : x # e)

\* [...s].splice(i, 0, e) with a 0-based index i, clamped as splice clamps it
InsertAt(s, i, e) ==
    LET k == Max(0, Min(i, Len(s)))
    IN  SubSeq(s, 1, k) \o <<e>> \o SubSeq(s, k + 1, Len(s))

\* s.slice(-n)
Trim(s, n) == IF Len(s) <= n THEN s ELSE SubSeq(s, Len(s) - n + 1, Len(s))

\* s.some(x => x.id === id)
HasId(s, id) == \E i \in DOMAIN s : s[i].id = id

\* s.find(x => x.id === id), for an id that HasId
FindById(s, id) ==
    s[CHOOSE i \in DOMAIN s : s[i].id = id /\ \A j \in 1..(i - 1) : s[j].id # id]

\* ------------------------------------------------------------------------
\* Section ordering utilities (data/tasks/ordering; design document 4.1)
\* ------------------------------------------------------------------------
\* position None appends; an unknown sectionId returns the sections unchanged
addTaskToSection(taskId, sectionId, position, sections) ==
    [i \in DOMAIN sections |->
        IF sections[i].id = sectionId
        THEN [sections[i] EXCEPT !.items =
                 IF position = None THEN Append(@, taskId)
                 ELSE InsertAt(@, position[1], taskId)]
        ELSE sections[i]]

removeTaskFromSection(taskId, sectionId, sections) ==
    [i \in DOMAIN sections |->
        IF sections[i].id = sectionId
        THEN [sections[i] EXCEPT !.items = Without(@, taskId)]
        ELSE sections[i]]

\* variant: toIndex taken as a 1-based position
moveTaskWithinSectionOneBased(sectionId, taskId, toIndex, sections) ==
    [i \in DOMAIN sections |->
        IF sections[i].id = sectionId /\ taskId \in Range(sections[i].items)
        THEN [sections[i] EXCEPT !.items = InsertAt(Without(@, taskId), toIndex + 1, taskId)]
        ELSE sections[i]]

\* a no-op when taskId is not in the section; toIndex clamped to [0, length]
moveTaskWithinSection(sectionId, taskId, toIndex, sections) ==
    [i \in DOMAIN sections |->
        IF sections[i].id = sectionId /\ taskId \in Range(sections[i].items)
        THEN [sections[i] EXCEPT !.items = InsertAt(Without(@, taskId), toIndex, taskId)]
        ELSE sections[i]]

\* the project's default section: its first section, NULL when it has none
getDefaultSectionId(project) ==
    IF Len(project.sections) = 0 THEN NULL ELSE project.sections[1].id

\* ------------------------------------------------------------------------
\* withHistory(targetAtom, limit) (jotai-history; design document 4.2)
\* ------------------------------------------------------------------------
EmptyHistory == [undo |-> <<>>, redo |-> <<>>]

canUndo(h) == Len(h.undo) > 0

canRedo(h) == Len(h.redo) > 0

\* set(historyAtom, newValue): push the previous value, trim, clear redo
HistoryPush(h, cur, limit) == [undo |-> Trim(Append(h.undo, cur), limit), redo |-> <<>>]

\* set(historyAtom, UNDO): the value restored and the stacks afterwards
HistoryUndoValue(h, cur) == IF canUndo(h) THEN Last(h.undo) ELSE cur

HistoryUndo(h, cur) ==
    IF canUndo(h) THEN [undo |-> Front(h.undo), redo |-> Append(h.redo, cur)] ELSE h

\* set(historyAtom, REDO)
HistoryRedoValue(h, cur) == IF canRedo(h) THEN Last(h.redo) ELSE cur

HistoryRedo(h, cur) ==
    IF canRedo(h) THEN [undo |-> Append(h.undo, cur), redo |-> Front(h.redo)] ELSE h

\* set(historyAtom, RESET)
HistoryReset(h) == EmptyHistory

\* ------------------------------------------------------------------------
\* Writes
\* ------------------------------------------------------------------------
\* set(tasksHistoryAtom, value): the write reaches tasksAtom and is tracked
SetTasksHistory(value) ==
    /\ tasks' = value
    /\ tasksHistory' = HistoryPush(tasksHistory, tasks, HISTORY_CONFIG.tasks)

\* variant: the previous value pushed twice
SetProjectsHistoryTwice(value) ==
    /\ projects' = value
    /\ projectsHistory' = HistoryPush(HistoryPush(projectsHistory, projects,
                                                  HISTORY_CONFIG.projects),
                                      projects, HISTORY_CONFIG.projects)

SetProjectsHistory(value) ==
    /\ projects' = value
    /\ projectsHistory' = HistoryPush(projectsHistory, projects, HISTORY_CONFIG.projects)

\* labelsHistoryAtom created with the depth configured for tasks
SetLabelsHistoryTasksDepth(value) ==
    /\ labels' = value
    /\ labelsHistory' = HistoryPush(labelsHistory, labels, HISTORY_CONFIG.tasks)

SetLabelsHistory(value) ==
    /\ labels' = value
    /\ labelsHistory' = HistoryPush(labelsHistory, labels, HISTORY_CONFIG.labels)

\* projects.map(p => p.id === projectId ? {...p, sections} : p)
WithSections(ps, projectId, sections) ==
    [i \in DOMAIN ps |->
        IF ps[i].id = projectId THEN [ps[i] EXCEPT !.sections = sections] ELSE ps[i]]

\* project.sections.some(s => s.items.includes(taskId))
InSomeSection(project, taskId) ==
    \E i \in DOMAIN project.sections : taskId \in Range(project.sections[i].items)

\* project.sections.find(s => s.items.includes(taskId)), when InSomeSection
SectionContaining(project, taskId) ==
    project.sections[CHOOSE i \in DOMAIN project.sections :
        /\ taskId \in Range(project.sections[i].items)
        /\ \A j \in 1..(i - 1) : taskId \notin Range(project.sections[j].items)]

\* task?.projectId || INBOX_PROJECT_ID
ProjectIdOfTask(taskId) ==
    IF HasId(tasks, taskId) /\ FindById(tasks, taskId).projectId # NULL
    THEN FindById(tasks, taskId).projectId
    ELSE INBOX_PROJECT_ID

\* ResolveProjectId going to the task's project whatever the view
ResolveProjectIdOfTask(viewId, taskId) == ProjectIdOfTask(taskId)

\* the view-id resolution of moveTask, reorderTaskInView, removeTaskFromView
ResolveProjectId(viewId, taskId) ==
    IF viewId = "inbox" THEN INBOX_PROJECT_ID
    ELSE IF HasId(projects, viewId) THEN viewId
    ELSE ProjectIdOfTask(taskId)

\* ------------------------------------------------------------------------
\* history.ts
\* ------------------------------------------------------------------------
recordOperationAtom(operation) ==
    /\ lastOperation' = operation
    /\ thrown' = FALSE
    /\ UNCHANGED <<tasks, projects, labels, tasksHistory, projectsHistory,
                   labelsHistory, nextId, today, sent, ioVars>>

\* historyStateAtom.canUndo / canRedo
historyCanUndo == canUndo(tasksHistory) \/ canUndo(projectsHistory) \/ canUndo(labelsHistory)

historyCanRedo == canRedo(tasksHistory) \/ canRedo(projectsHistory) \/ canRedo(labelsHistory)

\* if (tasksHistory.canUndo) set(tasksHistoryAtom, UNDO), and its siblings
undoTasks ==
    IF canUndo(tasksHistory)
    THEN /\ tasks' = HistoryUndoValue(tasksHistory, tasks)
         /\ tasksHistory' = HistoryUndo(tasksHistory, tasks)
    ELSE UNCHANGED <<tasks, tasksHistory>>

undoProjects ==
    IF canUndo(projectsHistory)
    THEN /\ projects' = HistoryUndoValue(projectsHistory, projects)
         /\ projectsHistory' = HistoryUndo(projectsHistory, projects)
    ELSE UNCHANGED <<projects, projectsHistory>>

undoLabels ==
    IF canUndo(labelsHistory)
    THEN /\ labels' = HistoryUndoValue(labelsHistory, labels)
         /\ labelsHistory' = HistoryUndo(labelsHistory, labels)
    ELSE UNCHANGED <<labels, labelsHistory>>

\* if (tasksHistory.canRedo) set(tasksHistoryAtom, REDO), and its siblings
redoTasks ==
    IF canRedo(tasksHistory)
    THEN /\ tasks' = HistoryRedoValue(tasksHistory, tasks)
         /\ tasksHistory' = HistoryRedo(tasksHistory, tasks)
    ELSE UNCHANGED <<tasks, tasksHistory>>

redoProjects ==
    IF canRedo(projectsHistory)
    THEN /\ projects' = HistoryRedoValue(projectsHistory, projects)
         /\ projectsHistory' = HistoryRedo(projectsHistory, projects)
    ELSE UNCHANGED <<projects, projectsHistory>>

redoLabels ==
    IF canRedo(labelsHistory)
    THEN /\ labels' = HistoryRedoValue(labelsHistory, labels)
         /\ labelsHistory' = HistoryRedo(labelsHistory, labels)
    ELSE UNCHANGED <<labels, labelsHistory>>

\* undoAtom with the labels branch left out
undoAtomSkipsLabels ==
    /\ thrown' = FALSE
    /\ UNCHANGED <<nextId, today, sent, ioVars>>
    /\ IF ~historyCanUndo
       THEN UNCHANGED <<tasks, projects, labels, tasksHistory, projectsHistory,
                        labelsHistory, lastOperation>>
       ELSE /\ undoTasks
            /\ undoProjects
            /\ UNCHANGED <<labels, labelsHistory>>
            /\ lastOperation' = None

\* undoAtom clearing the description before the capability check
undoAtomClearsFirst ==
    /\ thrown' = FALSE
    /\ UNCHANGED <<nextId, today, sent, ioVars>>
    /\ lastOperation' = None
    /\ IF ~historyCanUndo
       THEN UNCHANGED <<tasks, projects, labels, tasksHistory, projectsHistory,
                        labelsHistory>>
       ELSE undoTasks /\ undoProjects /\ undoLabels

\* undoAtom without set(lastOperationAtom, null)
undoAtomKeepsOperation ==
    /\ thrown' = FALSE
    /\ UNCHANGED <<nextId, today, sent, ioVars, lastOperation>>
    /\ IF ~historyCanUndo
       THEN UNCHANGED <<tasks, projects, labels, tasksHistory, projectsHistory,
                        labelsHistory>>
       ELSE undoTasks /\ undoProjects /\ undoLabels

undoAtom ==
    /\ thrown' = FALSE
    /\ UNCHANGED <<nextId, today, sent, ioVars>>
    /\ IF ~historyCanUndo
       THEN UNCHANGED <<tasks, projects, labels, tasksHistory, projectsHistory,
                        labelsHistory, lastOperation>>
       ELSE /\ undoTasks
            /\ undoProjects
            /\ undoLabels
            /\ lastOperation' = None

redoAtom ==
    /\ thrown' = FALSE
    /\ UNCHANGED <<nextId, today, sent, ioVars, lastOperation>>
    /\ IF ~historyCanRedo
       THEN UNCHANGED <<tasks, projects, labels, tasksHistory, projectsHistory,
                        labelsHistory>>
       ELSE redoTasks /\ redoProjects /\ redoLabels

\* clearHistoryAtom without the RESET of projectsHistoryAtom
clearHistoryAtomSkipsProjects ==
    /\ tasksHistory' = HistoryReset(tasksHistory)
    /\ labelsHistory' = HistoryReset(labelsHistory)
    /\ lastOperation' = None
    /\ thrown' = FALSE
    /\ UNCHANGED <<tasks, projects, labels, projectsHistory, nextId, today, sent,
                   ioVars>>

clearHistoryAtom ==
    /\ tasksHistory' = HistoryReset(tasksHistory)
    /\ projectsHistory' = HistoryReset(projectsHistory)
    /\ labelsHistory' = HistoryReset(labelsHistory)
    /\ lastOperation' = None
    /\ thrown' = FALSE
    /\ UNCHANGED <<tasks, projects, labels, nextId, today, sent, ioVars>>

\* ------------------------------------------------------------------------
\* Collaborators of tasks.ts (design document 4.3, 6)
\* ------------------------------------------------------------------------
\* uuidv4() / the id a create mutation answers with: never used before
FreshId(prefix) == prefix \o ToString(nextId)

\* getEffectiveDueDate(task): None without a due date; a due date in the
\* past of an auto-rollover task rolls over to today
getEffectiveDueDate(task) ==
    IF task.dueDate = None THEN None
    ELSE IF task.recurringMode = "autoRollover" /\ task.dueDate[1] < today THEN Some(today)
    ELSE task.dueDate

\* the optimistic local patch of updateTasksMutation: {...task, ...request}
\* a request that completes an incomplete task stamps completedAt, one that
\* un-completes a task clears it
PatchTask(task, req) ==
    [f \in DOMAIN task |->
        IF f \in DOMAIN req THEN req[f]
        ELSE IF f = "completedAt" /\ "completed" \in DOMAIN req
        THEN IF ~req.completed THEN None
             ELSE IF task.completed THEN task.completedAt ELSE Some(today)
        ELSE task[f]]

RECURSIVE ApplyUpdates(_, _)
ApplyUpdates(ts, reqs) ==
    IF reqs = <<>> THEN ts
    ELSE ApplyUpdates([i \in DOMAIN ts |->
                          IF ts[i].id = reqs[1].id THEN PatchTask(ts[i], reqs[1]) ELSE ts[i]],
                      Tail(reqs))

\* the task an addTask / addTaskToView call creates from its CreateTaskRequest
NewTask(id, taskData) ==
    [id |-> id, projectId |-> taskData.projectId, completed |-> FALSE,
     completedAt |-> None, status |-> "active",
     recurringMode |-> taskData.recurringMode, dueDate |-> taskData.dueDate,
     comments |-> <<>>]

\* ------------------------------------------------------------------------
\* tasks.ts: addTaskAtom, in the steps its awaits separate
\* ------------------------------------------------------------------------
\* s without its i-th element
RemoveAt(s, i) == SubSeq(s, 1, i - 1) \o SubSeq(s, i + 1, Len(s))

\* up to createTaskMutation.mutateAsync(createTaskData): the request is in flight
addTaskStart(taskData) ==
    /\ pendingAdds' = Append(pendingAdds, taskData)
    /\ effects' = Append(effects, <<"createTaskMutation", "call">>)
    /\ thrown' = FALSE
    /\ UNCHANGED <<tasks, projects, labels, tasksHistory, projectsHistory, labelsHistory,
                   lastOperation, nextId, today, sent, pendingSections, pendingDeletes,
                   returned, inflight>>

\* the create mutation of the i-th pending call rejects: handleAtomError, throw
addTaskReject(i) ==
    /\ i \in DOMAIN pendingAdds
    /\ pendingAdds' = RemoveAt(pendingAdds, i)
    /\ thrown' = TRUE
    /\ UNCHANGED <<tasks, projects, labels, tasksHistory, projectsHistory, labelsHistory,
                   lastOperation, nextId, today, sent, pendingSections, pendingDeletes,
                   effects, returned, inflight>>

\* the end of a call that got through: the operation is recorded and, for a
\* task with due date and due time that is found in currentTasks, the
\* notification is scheduled
addTaskFinish(taskData, createdTaskId, currentTasks) ==
    /\ lastOperation' = <<"Added task", createdTaskId>>
    /\ effects' = IF /\ taskData.dueDate # None
                     /\ taskData.dueTime # None
                     /\ HasId(currentTasks, createdTaskId)
                  THEN Append(effects, <<"scheduleTask", createdTaskId>>)
                  ELSE effects
    /\ thrown' = FALSE

\* the create mutation of the i-th pending call resolves with the created
\* task's id; with a project and a target section the call goes on to
\* updateProjectsMutation.mutateAsync, which applies the new sections locally
\* and is in flight; without them the call runs on to its end
addTaskResolve(i) ==
    LET taskData == pendingAdds[i]
        createdTaskId == FreshId("task-")
        projectId == IF taskData.projectId = NULL THEN INBOX_PROJECT_ID
                     ELSE taskData.projectId
        hasProject == HasId(projects, projectId)
        project == FindById(projects, projectId)
        targetSectionId == IF taskData.sectionId # NULL THEN taskData.sectionId
                           ELSE getDefaultSectionId(project)
    IN
    /\ i \in DOMAIN pendingAdds
    /\ pendingAdds' = RemoveAt(pendingAdds, i)
    /\ tasks' = Append(tasks, NewTask(createdTaskId, taskData))
    /\ nextId' = nextId + 1
    /\ IF hasProject /\ targetSectionId # NULL
       THEN /\ projects' = WithSections(projects, projectId,
                               addTaskToSection(createdTaskId, targetSectionId, None,
                                                project.sections))
            /\ pendingSections' = Append(pendingSections,
                                         [taskId |-> createdTaskId, taskData |-> taskData,
                                          previous |-> projects])
            /\ effects' = Append(effects, <<"updateProjectsMutation", createdTaskId>>)
            /\ thrown' = FALSE
            /\ UNCHANGED lastOperation
       ELSE /\ UNCHANGED <<projects, pendingSections>>
            /\ addTaskFinish(taskData, createdTaskId, tasks')
    /\ UNCHANGED <<labels, tasksHistory, projectsHistory, labelsHistory, today, sent,
                   pendingDeletes, returned, inflight>>

\* variant: the response of the sections update puts the sections that
\* update sent in place of the current ones
addTaskSectionsResolveOverwrites(j) ==
    LET call == pendingSections[j]
        projectId == call.taskData.projectId
        project == FindById(call.previous, projectId)
        targetSectionId == IF call.taskData.sectionId # NULL THEN call.taskData.sectionId
                           ELSE getDefaultSectionId(project)
    IN
    /\ j \in DOMAIN pendingSections
    /\ pendingSections' = RemoveAt(pendingSections, j)
    /\ projects' = WithSections(projects, projectId,
                        addTaskToSection(call.taskId, targetSectionId, None,
                                         project.sections))
    /\ addTaskFinish(call.taskData, call.taskId, tasks)
    /\ UNCHANGED <<tasks, labels, tasksHistory, projectsHistory, labelsHistory,
                   nextId, today, sent, pendingAdds, pendingDeletes, returned, inflight>>

\* the sections update of the j-th pending call resolves
addTaskSectionsResolve(j) ==
    /\ j \in DOMAIN pendingSections
    /\ pendingSections' = RemoveAt(pendingSections, j)
    /\ addTaskFinish(pendingSections[j].taskData, pendingSections[j].taskId, tasks)
    /\ UNCHANGED <<tasks, projects, labels, tasksHistory, projectsHistory, labelsHistory,
                   nextId, today, sent, pendingAdds, pendingDeletes, returned, inflight>>

\* addTaskSectionsReject with the rejection swallowed: the call runs on to its end
addTaskSectionsRejectContinues(j) ==
    /\ j \in DOMAIN pendingSections
    /\ pendingSections' = RemoveAt(pendingSections, j)
    /\ projects' = pendingSections[j].previous
    /\ addTaskFinish(pendingSections[j].taskData, pendingSections[j].taskId, tasks)
    /\ UNCHANGED <<tasks, labels, tasksHistory, projectsHistory, labelsHistory,
                   nextId, today, sent, pendingAdds, pendingDeletes, returned, inflight>>

\* the sections update of the j-th pending call rejects: the mutation takes
\* its local change back, handleAtomError, throw
addTaskSectionsReject(j) ==
    /\ j \in DOMAIN pendingSections
    /\ pendingSections' = RemoveAt(pendingSections, j)
    /\ projects' = pendingSections[j].previous
    /\ thrown' = TRUE
    /\ UNCHANGED <<tasks, labels, tasksHistory, projectsHistory, labelsHistory,
                   lastOperation, nextId, today, sent, pendingAdds, pendingDeletes,
                   effects, returned, inflight>>

\* ------------------------------------------------------------------------
\* tasks.ts: updateTasksAtom, updateTaskAtom, toggleTaskAtom, deleteTasksAtom
\* ------------------------------------------------------------------------
\* NormalizeUpdate without the originalTask.completed test
NormalizeUpdateIgnoresCompleted(updateRequest) ==
    IF \/ ~HasId(tasks, updateRequest.id)
       \/ FindById(tasks, updateRequest.id).recurringMode # "autoRollover"
       \/ ~("completed" \in DOMAIN updateRequest /\ updateRequest.completed = TRUE)
       \/ "dueDate" \in DOMAIN updateRequest
    THEN updateRequest
    ELSE LET effectiveDueDate == getEffectiveDueDate(FindById(tasks, updateRequest.id)) IN
         IF effectiveDueDate = None THEN updateRequest
         ELSE [k \in DOMAIN updateRequest \cup {"dueDate"} |->
                  IF k = "dueDate" THEN effectiveDueDate ELSE updateRequest[k]]

NormalizeUpdate(updateRequest) ==
    IF \/ ~HasId(tasks, updateRequest.id)
       \/ FindById(tasks, updateRequest.id).completed
       \/ FindById(tasks, updateRequest.id).recurringMode # "autoRollover"
       \/ ~("completed" \in DOMAIN updateRequest /\ updateRequest.completed = TRUE)
       \/ "dueDate" \in DOMAIN updateRequest
    THEN updateRequest
    ELSE LET effectiveDueDate == getEffectiveDueDate(FindById(tasks, updateRequest.id)) IN
         IF effectiveDueDate = None THEN updateRequest
         ELSE [k \in DOMAIN updateRequest \cup {"dueDate"} |->
                  IF k = "dueDate" THEN effectiveDueDate ELSE updateRequest[k]]

NormalizedUpdates(updateRequests) ==
    [i \in DOMAIN updateRequests |-> NormalizeUpdate(updateRequests[i])]

updateTasksAtom(updateRequests) ==
    /\ sent' = NormalizedUpdates(updateRequests)
    /\ tasks' = ApplyUpdates(tasks, NormalizedUpdates(updateRequests))
    /\ thrown' = FALSE
    /\ UNCHANGED <<projects, labels, tasksHistory, projectsHistory, labelsHistory,
                   lastOperation, nextId, today, ioVars>>

updateTaskAtom(updateRequest) == updateTasksAtom(<<updateRequest>>)

toggleTaskAtom(taskId) ==
    /\ thrown' = FALSE
    /\ UNCHANGED <<projects, labels, tasksHistory, projectsHistory, labelsHistory,
                   nextId, today, ioVars>>
    /\ IF ~HasId(tasks, taskId)
       THEN UNCHANGED <<tasks, sent, lastOperation>>
       ELSE LET willBeCompleted == ~FindById(tasks, taskId).completed
                updateRequest == [id |-> taskId, completed |-> willBeCompleted]
            IN /\ sent' = NormalizedUpdates(<<updateRequest>>)
               /\ tasks' = ApplyUpdates(tasks, NormalizedUpdates(<<updateRequest>>))
               /\ lastOperation' = <<IF willBeCompleted THEN "Completed task"
                                     ELSE "Uncompleted task", taskId>>

\* deleteTasksStart invoking the delete mutation before the cancels
deleteTasksStartMutationFirst(taskIds) ==
    LET tasksToDelete == SelectSeq(tasks, LAMBDA t : t.id \in Range(taskIds)) IN
    /\ thrown' = FALSE
    /\ UNCHANGED <<projects, labels, tasksHistory, projectsHistory, labelsHistory,
                   lastOperation, nextId, today, sent, pendingAdds, pendingSections,
                   returned, inflight>>
    /\ IF Len(tasksToDelete) = 0
       THEN UNCHANGED <<tasks, pendingDeletes, effects>>
       ELSE /\ effects' = effects
                            \o << <<"deleteTaskMutation", "call">> >>
                            \o [i \in DOMAIN taskIds |-> <<"cancelTask", taskIds[i]>>]
            /\ tasks' = SelectSeq(tasks, LAMBDA t : t.id \notin Range(taskIds))
            /\ pendingDeletes' = Append(pendingDeletes,
                                        [tasksToDelete |-> tasksToDelete, previous |-> tasks])

\* deleteTasksAtom up to deleteTaskMutation.mutateAsync({ids: taskIds}): the
\* notifications of the given ids are cancelled, the mutation removes the
\* tasks locally and is in flight; nothing happens when no id matches a task
deleteTasksStart(taskIds) ==
    LET tasksToDelete == SelectSeq(tasks, LAMBDA t : t.id \in Range(taskIds)) IN
    /\ thrown' = FALSE
    /\ UNCHANGED <<projects, labels, tasksHistory, projectsHistory, labelsHistory,
                   lastOperation, nextId, today, sent, pendingAdds, pendingSections,
                   returned, inflight>>
    /\ IF Len(tasksToDelete) = 0
       THEN UNCHANGED <<tasks, pendingDeletes, effects>>
       ELSE /\ effects' = effects
                            \o [i \in DOMAIN taskIds |-> <<"cancelTask", taskIds[i]>>]
                            \o << <<"deleteTaskMutation", "call">> >>
            /\ tasks' = SelectSeq(tasks, LAMBDA t : t.id \notin Range(taskIds))
            /\ pendingDeletes' = Append(pendingDeletes,
                                        [tasksToDelete |-> tasksToDelete, previous |-> tasks])

\* the delete mutation of the i-th pending call resolves: the operation is recorded
deleteTasksResolve(i) ==
    LET tasksToDelete == pendingDeletes[i].tasksToDelete IN
    /\ i \in DOMAIN pendingDeletes
    /\ pendingDeletes' = RemoveAt(pendingDeletes, i)
    /\ lastOperation' = IF Len(tasksToDelete) = 1
                        THEN <<"Deleted task", tasksToDelete[1].id>>
                        ELSE <<"Deleted tasks", ToString(Len(tasksToDelete))>>
    /\ thrown' = FALSE
    /\ UNCHANGED <<tasks, projects, labels, tasksHistory, projectsHistory, labelsHistory,
                   nextId, today, sent, pendingAdds, pendingSections, effects, returned, inflight>>

\* the delete mutation of the i-th pending call rejects: the mutation takes
\* its local removal back, handleAtomError, throw
deleteTasksReject(i) ==
    /\ i \in DOMAIN pendingDeletes
    /\ pendingDeletes' = RemoveAt(pendingDeletes, i)
    /\ tasks' = pendingDeletes[i].previous
    /\ thrown' = TRUE
    /\ UNCHANGED <<projects, labels, tasksHistory, projectsHistory, labelsHistory,
                   lastOperation, nextId, today, sent, pendingAdds, pendingSections,
                   effects, returned, inflight>>

\* ------------------------------------------------------------------------
\* tasks.ts: addCommentAtom, bulkActionsAtom
\* ------------------------------------------------------------------------
addCommentAtom(request) ==
    LET updatedTasks ==
            [i \in DOMAIN tasks |->
                IF tasks[i].id # request.taskId THEN tasks[i]
                ELSE IF request.id # NULL
                THEN [tasks[i] EXCEPT !.comments =
                         [j \in DOMAIN @ |->
                             IF @[j].id = request.id
                             THEN [@[j] EXCEPT !.content = request.content] ELSE @[j]]]
                ELSE [tasks[i] EXCEPT !.comments =
                         Append(@, [id |-> FreshId("comment-"), content |-> request.content])]]
    IN
    /\ SetTasksHistory(updatedTasks)
    /\ nextId' = IF request.id = NULL /\ HasId(tasks, request.taskId)
                 THEN nextId + 1 ELSE nextId
    /\ thrown' = FALSE
    /\ UNCHANGED <<projects, labels, projectsHistory, labelsHistory,
                   lastOperation, today, sent, ioVars>>

\* variant: 'archive' also marks the tasks completed
bulkActionsAtomCoarse(action, taskIds) ==
    /\ thrown' = FALSE
    /\ UNCHANGED <<projects, labels, projectsHistory, labelsHistory,
                   lastOperation, nextId, today, sent, ioVars>>
    /\ CASE action = "complete" ->
                SetTasksHistory([i \in DOMAIN tasks |->
                    IF tasks[i].id \in taskIds
                    THEN [tasks[i] EXCEPT !.completed = TRUE, !.completedAt = Some(today),
                                          !.status = "completed"]
                    ELSE tasks[i]])
         [] action = "delete" ->
                SetTasksHistory(SelectSeq(tasks, LAMBDA t : t.id \notin taskIds))
         [] action = "archive" ->
                SetTasksHistory([i \in DOMAIN tasks |->
                    IF tasks[i].id \in taskIds
                    THEN [tasks[i] EXCEPT !.status = "archived", !.completed = TRUE]
                    ELSE tasks[i]])

bulkActionsAtom(action, taskIds) ==
    /\ thrown' = FALSE
    /\ UNCHANGED <<projects, labels, projectsHistory, labelsHistory,
                   lastOperation, nextId, today, sent, ioVars>>
    /\ CASE action = "complete" ->
                SetTasksHistory([i \in DOMAIN tasks |->
                    IF tasks[i].id \in taskIds
                    THEN [tasks[i] EXCEPT !.completed = TRUE, !.completedAt = Some(today),
                                          !.status = "completed"]
                    ELSE tasks[i]])
         [] action = "delete" ->
                SetTasksHistory(SelectSeq(tasks, LAMBDA t : t.id \notin taskIds))
         [] action = "archive" ->
                SetTasksHistory([i \in DOMAIN tasks |->
                    IF tasks[i].id \in taskIds
                    THEN [tasks[i] EXCEPT !.status = "archived"] ELSE tasks[i]])

\* ------------------------------------------------------------------------
\* tasks.ts: moveTaskAtom, moveTaskBetweenSectionsAtom, reorderTaskInViewAtom,
\*           addTaskToViewAtom, removeTaskFromViewAtom
\* ------------------------------------------------------------------------
\* viewId NULL and fromIndex / toIndex None stand for omitted parameters
moveTaskAtom(taskId, viewId, fromIndex, toIndex) ==
    LET projectId == ResolveProjectId(viewId, taskId)
        project == FindById(projects, projectId)
    IN
    /\ thrown' = FALSE
    /\ UNCHANGED <<tasks, labels, tasksHistory, labelsHistory, lastOperation,
                   nextId, today, sent, ioVars>>
    /\ IF /\ viewId # NULL /\ fromIndex # None /\ toIndex # None
          /\ HasId(projects, projectId)
          /\ InSomeSection(project, taskId)
       THEN SetProjectsHistory(WithSections(projects, projectId,
                moveTaskWithinSection(SectionContaining(project, taskId).id, taskId,
                                      toIndex[1], project.sections)))
       ELSE UNCHANGED <<projects, projectsHistory>>

\* moveTaskBetweenSectionsAtom returning instead of throwing
moveTaskBetweenSectionsAtomSilent(taskId, newSectionId, projectId, position) ==
    LET project == FindById(projects, projectId)
        removed == IF InSomeSection(project, taskId)
                   THEN removeTaskFromSection(taskId, SectionContaining(project, taskId).id,
                                              project.sections)
                   ELSE project.sections
        updatedSections == addTaskToSection(taskId, newSectionId, position, removed)
    IN
    /\ UNCHANGED <<tasks, labels, tasksHistory, labelsHistory, lastOperation,
                   nextId, today, sent, ioVars>>
    /\ thrown' = FALSE
    /\ IF ~HasId(tasks, taskId) \/ ~HasId(projects, projectId)
       THEN UNCHANGED <<projects, projectsHistory>>
       ELSE SetProjectsHistory(WithSections(projects, projectId, updatedSections))

\* moveTaskBetweenSectionsAtom without the removal from the old section
moveTaskBetweenSectionsAtomKeepsOld(taskId, newSectionId, projectId, position) ==
    LET project == FindById(projects, projectId)
        updatedSections == addTaskToSection(taskId, newSectionId, position, project.sections)
    IN
    /\ UNCHANGED <<tasks, labels, tasksHistory, labelsHistory, lastOperation,
                   nextId, today, sent, ioVars>>
    /\ IF ~HasId(tasks, taskId) \/ ~HasId(projects, projectId)
       THEN /\ thrown' = TRUE
            /\ UNCHANGED <<projects, projectsHistory>>
       ELSE /\ thrown' = FALSE
            /\ SetProjectsHistory(WithSections(projects, projectId, updatedSections))

moveTaskBetweenSectionsAtom(taskId, newSectionId, projectId, position) ==
    LET project == FindById(projects, projectId)
        removed == IF InSomeSection(project, taskId)
                   THEN removeTaskFromSection(taskId, SectionContaining(project, taskId).id,
                                              project.sections)
                   ELSE project.sections
        updatedSections == addTaskToSection(taskId, newSectionId, position, removed)
    IN
    /\ UNCHANGED <<tasks, labels, tasksHistory, labelsHistory, lastOperation,
                   nextId, today, sent, ioVars>>
    /\ IF ~HasId(tasks, taskId) \/ ~HasId(projects, projectId)
       THEN /\ thrown' = TRUE
            /\ UNCHANGED <<projects, projectsHistory>>
       ELSE /\ thrown' = FALSE
            /\ SetProjectsHistory(WithSections(projects, projectId, updatedSections))

reorderTaskInViewAtom(taskId, viewId, fromIndex, toIndex) ==
    LET projectId == ResolveProjectId(viewId, taskId)
        project == FindById(projects, projectId)
    IN
    /\ thrown' = FALSE
    /\ UNCHANGED <<tasks, labels, tasksHistory, labelsHistory, lastOperation,
                   nextId, today, sent, ioVars>>
    /\ IF /\ HasId(tasks, taskId)
          /\ HasId(projects, projectId)
          /\ InSomeSection(project, taskId)
       THEN SetProjectsHistory(WithSections(projects, projectId,
                moveTaskWithinSection(SectionContaining(project, taskId).id, taskId,
                                      toIndex, project.sections)))
       ELSE UNCHANGED <<projects, projectsHistory>>

addTaskToViewAtom(taskData, viewId, position) ==
    LET newTask == NewTask(FreshId("task-"), taskData)
        projectId == IF newTask.projectId = NULL THEN INBOX_PROJECT_ID ELSE newTask.projectId
        project == FindById(projects, projectId)
    IN
    /\ SetTasksHistory(Append(tasks, newTask))
    /\ nextId' = nextId + 1
    /\ thrown' = FALSE
    /\ UNCHANGED <<labels, labelsHistory, lastOperation, today, sent, ioVars>>
    /\ IF HasId(projects, projectId) /\ getDefaultSectionId(project) # NULL
       THEN SetProjectsHistory(WithSections(projects, projectId,
                addTaskToSection(newTask.id, getDefaultSectionId(project), position,
                                 project.sections)))
       ELSE UNCHANGED <<projects, projectsHistory>>

removeTaskFromViewAtom(taskId, viewId) ==
    LET projectId == ResolveProjectId(viewId, taskId)
        project == FindById(projects, projectId)
    IN
    /\ thrown' = FALSE
    /\ UNCHANGED <<tasks, labels, tasksHistory, labelsHistory, lastOperation,
                   nextId, today, sent, ioVars>>
    /\ IF /\ HasId(tasks, taskId)
          /\ HasId(projects, projectId)
          /\ InSomeSection(project, taskId)
       THEN SetProjectsHistory(WithSections(projects, projectId,
                removeTaskFromSection(taskId, SectionContaining(project, taskId).id,
                                      project.sections)))
       ELSE UNCHANGED <<projects, projectsHistory>>

\* ------------------------------------------------------------------------
\* labels.ts: updateLabelAtom, reorderLabelsAtom
\* ------------------------------------------------------------------------
\* updateLabelAtom writing labelsAtom itself instead of labelsHistoryAtom
updateLabelAtomUntracked(id, changes) ==
    /\ labels' = [i \in DOMAIN labels |->
           IF labels[i].id = id
           THEN [f \in DOMAIN labels[i] |->
                    IF f \in DOMAIN changes THEN changes[f] ELSE labels[i][f]]
           ELSE labels[i]]
    /\ thrown' = FALSE
    /\ UNCHANGED <<tasks, projects, tasksHistory, projectsHistory, labelsHistory,
                   lastOperation, nextId, today, sent, ioVars>>

updateLabelAtom(id, changes) ==
    /\ SetLabelsHistory([i \in DOMAIN labels |->
           IF labels[i].id = id
           THEN [f \in DOMAIN labels[i] |->
                    IF f \in DOMAIN changes THEN changes[f] ELSE labels[i][f]]
           ELSE labels[i]])
    /\ thrown' = FALSE
    /\ UNCHANGED <<tasks, projects, tasksHistory, projectsHistory, lastOperation,
                   nextId, today, sent, ioVars>>

\* variant: indices out of range clamped as splice clamps them
reorderLabelsAtomClamps(fromIndex, toIndex) ==
    LET from == Max(0, Min(fromIndex, Len(labels) - 1))
    IN
    /\ UNCHANGED <<tasks, projects, tasksHistory, projectsHistory, lastOperation,
                   nextId, today, sent, ioVars>>
    /\ thrown' = FALSE
    /\ IF from = toIndex
       THEN UNCHANGED <<labels, labelsHistory>>
       ELSE SetLabelsHistory(
                InsertAt(SubSeq(labels, 1, from) \o SubSeq(labels, from + 2, Len(labels)),
                         toIndex, labels[from + 1]))

reorderLabelsAtom(fromIndex, toIndex) ==
    /\ UNCHANGED <<tasks, projects, tasksHistory, projectsHistory, lastOperation,
                   nextId, today, sent, ioVars>>
    /\ IF fromIndex < 0 \/ toIndex < 0 \/ fromIndex >= Len(labels) \/ toIndex > Len(labels)
       THEN /\ thrown' = TRUE
            /\ UNCHANGED <<labels, labelsHistory>>
       ELSE /\ thrown' = FALSE
            /\ IF fromIndex = toIndex
               THEN UNCHANGED <<labels, labelsHistory>>
               ELSE SetLabelsHistory(
                        InsertAt(SubSeq(labels, 1, fromIndex)
                                    \o SubSeq(labels, fromIndex + 2, Len(labels)),
                                 toIndex, labels[fromIndex + 1]))

\* ------------------------------------------------------------------------
\* Initial state: the collections as loaded, nothing tracked yet
\* ------------------------------------------------------------------------
Task(id, projectId, completed, recurringMode, dueDate) ==
    [id |-> id, projectId |-> projectId, completed |-> completed,
     completedAt |-> IF completed THEN Some(1) ELSE None,
     status |-> IF completed THEN "completed" ELSE "active",
     recurringMode |-> recurringMode, dueDate |-> dueDate, comments |-> <<>>]

InitialProjects ==
    << [id |-> INBOX_PROJECT_ID, sections |-> << [id |-> "sI", items |-> <<"t2">>] >>],
       [id |-> "p1", sections |-> << [id |-> "sA", items |-> <<"t1", "t3">>],
                                     [id |-> "sB", items |-> <<>>] >>] >>

InitialLabels == << [id |-> "l1", name |-> "Work"], [id |-> "l2", name |-> "Home"] >>

InitCommon ==
    /\ projects = InitialProjects
    /\ labels = InitialLabels
    /\ tasksHistory = EmptyHistory
    /\ projectsHistory = EmptyHistory
    /\ labelsHistory = EmptyHistory
    /\ lastOperation = None
    /\ nextId = 1
    /\ sent = <<>>
    /\ pendingAdds = <<>>
    /\ pendingSections = <<>>
    /\ pendingDeletes = <<>>
    /\ effects = <<>>
    /\ returned = [op |-> "none", value |-> <<>>]
    /\ inflight = <<>>
    /\ thrown = FALSE
    /\ lastCall = [op |-> "init", args |-> <<>>]
    /\ pushes = [tasks |-> 0, projects |-> 0, labels |-> 0]
    /\ trace = <<>>
    /\ steps = 0

Init ==
    /\ tasks = << Task("t1", "p1", FALSE, "autoRollover", Some(1)),
                  Task("t2", NULL, FALSE, "dueDate", None),
                  Task("t3", "p1", TRUE, "dueDate", Some(3)) >>
    /\ today = 2
    /\ InitCommon

\* ------------------------------------------------------------------------
\* Observation of a call
\* ------------------------------------------------------------------------
Collections == {"tasks", "projects", "labels"}

ValueOf(c) == CASE c = "tasks" -> tasks [] c = "projects" -> projects [] c = "labels" -> labels

HistoryOf(c) ==
    CASE c = "tasks" -> tasksHistory [] c = "projects" -> projectsHistory
      [] c = "labels" -> labelsHistory

Snapshot == [tasks |-> tasks, projects |-> projects, labels |-> labels,
             lastOperation |-> lastOperation,
             canUndo |-> {c \in Collections : canUndo(HistoryOf(c))},
             canRedo |-> {c \in Collections : canRedo(HistoryOf(c))}]

Observe(op, args) ==
    /\ lastCall' = [op |-> op, args |-> args]
    /\ steps' = steps + 1
    /\ UNCHANGED pushes
    /\ trace' = Trim(Append(trace, [op |-> op, pre |-> Snapshot,
                                    post |-> Snapshot']), TraceLen)

Call(op, args, A) == steps < MaxSteps /\ A /\ Observe(op, args)

\* ------------------------------------------------------------------------
\* Spec: the three tracked collections under their writers and undo / redo
\* ------------------------------------------------------------------------
TaskIds == {tasks[i].id : i \in DOMAIN tasks}

DoUndo == Call("undo", <<>>, undoAtom)

DoRedo == Call("redo", <<>>, redoAtom)

DoClearHistory == Call("clearHistory", <<>>, clearHistoryAtom)

DoRecordOperation == Call("recordOperation", <<>>, recordOperationAtom(<<"Renamed", "x">>))

DoAddComment ==
    /\ nextId <= MaxNewIds
    /\ \E t \in {"t1"} :
          Call("addComment", <<t>>, addCommentAtom([taskId |-> t, id |-> NULL, content |-> "hi"]))

DoBulkActions ==
    \E action \in {"complete", "delete", "archive"} :
        Call("bulkActions", <<action>>, bulkActionsAtom(action, {"t1"}))

DoToggleTask == \E t \in {"t2"} : Call("toggleTask", <<t>>, toggleTaskAtom(t))

DoMoveBetweenSections ==
    \E s \in {"sA", "sB"} :
        Call("moveTaskBetweenSections", <<"t1", s>>,
             moveTaskBetweenSectionsAtom("t1", s, "p1", None))

DoUpdateLabel ==
    \E n \in {"Work", "Job"} :
        Call("updateLabel", <<"l1", n>>, updateLabelAtom("l1", [name |-> n]))

DoReorderLabels ==
    \E from \in {0}, to \in {1, 3} :
        Call("reorderLabels", <<from, to>>, reorderLabelsAtom(from, to))

Next ==
    \/ DoUndo
    \/ DoRedo
    \/ DoClearHistory
    \/ DoRecordOperation
    \/ DoAddComment
    \/ DoBulkActions
    \/ DoToggleTask
    \/ DoMoveBetweenSections
    \/ DoUpdateLabel
    \/ DoReorderLabels

Spec == Init /\ [][Next]_vars

\* ------------------------------------------------------------------------
\* SpecSections: the section membership of tasks under the view actions
\* ------------------------------------------------------------------------
CallUntraced(op, A) ==
    /\ steps < MaxSectionSteps
    /\ A
    /\ lastCall' = [op |-> op, args |-> <<>>]
    /\ steps' = steps + 1
    /\ UNCHANGED <<trace, pushes>>

TaskIdInputs == TaskIds \cup {"t0"}

ViewIdInputs == {"inbox", "p1", "today"}

SectionIdInputs == {"sA", "sB", "sX"}

ProjectIdInputs == {"p1", INBOX_PROJECT_ID, "pX"}

IndexInputs == {-1, 0, 1, 5}

PositionInputs == {None, Some(0), Some(1)}

TaskDataInputs ==
    {[projectId |-> p, sectionId |-> s, recurringMode |-> "dueDate", dueDate |-> None,
      dueTime |-> None] :
        p \in {NULL, "p1", "pX"}, s \in {NULL, "sB"}}

SAddTaskStart ==
    /\ nextId + Len(pendingAdds) <= MaxNewIds
    /\ \E d \in TaskDataInputs : CallUntraced("addTask", addTaskStart(d))

SAddTaskResolve ==
    \E i \in DOMAIN pendingAdds : CallUntraced("addTaskResolve", addTaskResolve(i))

SAddTaskSectionsResolve ==
    \E j \in DOMAIN pendingSections :
        CallUntraced("addTaskSectionsResolve", addTaskSectionsResolve(j))

SAddTaskSectionsReject ==
    \E j \in DOMAIN pendingSections :
        CallUntraced("addTaskSectionsReject", addTaskSectionsReject(j))

SAddTaskToView ==
    /\ nextId <= MaxNewIds
    /\ \E d \in TaskDataInputs, v \in ViewIdInputs, pos \in PositionInputs :
          CallUntraced("addTaskToView", addTaskToViewAtom(d, v, pos))

SMoveTask ==
    \E t \in TaskIdInputs, v \in ViewIdInputs \cup {NULL}, to \in IndexInputs :
        CallUntraced("moveTask", moveTaskAtom(t, v, Some(0), Some(to)))

SReorderTaskInView ==
    \E t \in TaskIdInputs, v \in ViewIdInputs, to \in IndexInputs :
        CallUntraced("reorderTaskInView", reorderTaskInViewAtom(t, v, 0, to))

SMoveTaskBetweenSections ==
    \E t \in TaskIdInputs, s \in SectionIdInputs, p \in ProjectIdInputs, pos \in PositionInputs :
        CallUntraced("moveTaskBetweenSections",
                     moveTaskBetweenSectionsAtom(t, s, p, pos))

SRemoveTaskFromView ==
    \E t \in TaskIdInputs, v \in ViewIdInputs :
        CallUntraced("removeTaskFromView", removeTaskFromViewAtom(t, v))

SUndo == CallUntraced("undo", undoAtom)

SRedo == CallUntraced("redo", redoAtom)

NextSections ==
    \/ SAddTaskStart
    \/ SAddTaskResolve
    \/ SAddTaskSectionsResolve
    \/ SAddTaskSectionsReject
    \/ SAddTaskToView
    \/ SMoveTask
    \/ SReorderTaskInView
    \/ SMoveTaskBetweenSections
    \/ SRemoveTaskFromView
    \/ SUndo
    \/ SRedo

SpecSections == Init /\ [][NextSections]_vars

\* ------------------------------------------------------------------------
\* SpecBounded: each history atom written past its configured depth
\* ------------------------------------------------------------------------
CallBounded(op, c, A) ==
    /\ pushes[c] < HISTORY_CONFIG[c] + ExtraPushes
    /\ A
    /\ pushes' = [pushes EXCEPT ![c] = @ + 1]
    /\ lastCall' = [op |-> op, args |-> <<>>]
    /\ steps' = steps + 1
    /\ UNCHANGED trace

\* archive and complete t1 in turn
BBulkActions ==
    \E action \in {"complete", "archive"} :
        /\ action = IF FindById(tasks, "t1").status = "completed" THEN "archive"
                    ELSE "complete"
        /\ CallBounded("bulkActions", "tasks", bulkActionsAtom(action, {"t1"}))

\* move t1 to the section of p1 it is not in
BMoveBetweenSections ==
    \E s \in {"sA", "sB"} :
        /\ s # SectionContaining(FindById(projects, "p1"), "t1").id
        /\ CallBounded("moveTaskBetweenSections", "projects",
                       moveTaskBetweenSectionsAtom("t1", s, "p1", None))

\* rename l1 to the name it does not have
BUpdateLabel ==
    \E n \in {"Job", "Gig"} :
        /\ n = IF FindById(labels, "l1").name = "Job" THEN "Gig" ELSE "Job"
        /\ CallBounded("updateLabel", "labels", updateLabelAtom("l1", [name |-> n]))

NextBounded == BBulkActions \/ BMoveBetweenSections \/ BUpdateLabel

SpecBounded == Init /\ [][NextBounded]_vars

\* ------------------------------------------------------------------------
\* SpecUpdate: updateTasksAtom over stored tasks and requests of every shape
\* ------------------------------------------------------------------------
InitUpdate ==
    /\ \E completed \in BOOLEAN, mode \in {"dueDate", "autoRollover"},
          due \in {None, Some(1), Some(3)} :
            tasks = << Task("t1", "p1", completed, mode, due),
                       Task("t2", NULL, FALSE, "autoRollover", Some(1)),
                       Task("t3", "p1", TRUE, "dueDate", Some(3)) >>
    /\ today = 2
    /\ InitCommon

\* an UpdateTaskRequest: id, and completed / dueDate keys only when given
UpdateRequestInputs ==
    { [id |-> t] : t \in {"t1", "t0"} }
    \cup { [id |-> t, completed |-> c] : t \in {"t1", "t0"}, c \in BOOLEAN }
    \cup { [id |-> t, dueDate |-> d] : t \in {"t1"}, d \in {None, Some(3)} }
    \cup { [id |-> t, completed |-> c, dueDate |-> d] :
              t \in {"t1"}, c \in BOOLEAN, d \in {None, Some(3)} }

UpdateBatchInputs ==
    { <<r>> : r \in UpdateRequestInputs }
    \cup { <<r, [id |-> "t2", completed |-> TRUE]>> : r \in UpdateRequestInputs }

CallArgs(op, args, A) ==
    /\ steps < MaxSteps
    /\ A
    /\ lastCall' = [op |-> op, args |-> args]
    /\ steps' = steps + 1
    /\ UNCHANGED <<trace, pushes>>

UUpdateTasks ==
    \E reqs \in UpdateBatchInputs :
        CallArgs("updateTasks", <<reqs>>, updateTasksAtom(reqs))

UUpdateTask ==
    \E r \in {[id |-> "t3", completed |-> FALSE], [id |-> "t3", completed |-> TRUE]} :
        CallArgs("updateTasks", <<<<r>>>>, updateTaskAtom(r))

UToggleTask ==
    \E t \in {"t1", "t0"} : CallArgs("toggleTask", <<t>>, toggleTaskAtom(t))

NextUpdate == UUpdateTasks \/ UUpdateTask \/ UToggleTask

SpecUpdate == InitUpdate /\ [][NextUpdate]_vars

\* ------------------------------------------------------------------------
\* Properties of the bounded depth (SpecBounded)
\* ------------------------------------------------------------------------
\* the depths the design document states: tasks 50, projects 30, labels 20
StatedDepth == [tasks |-> 50, projects |-> 30, labels |-> 20]

InitialValueOf(c) ==
    CASE c = "tasks" -> << Task("t1", "p1", FALSE, "autoRollover", Some(1)),
                           Task("t2", NULL, FALSE, "dueDate", None),
                           Task("t3", "p1", TRUE, "dueDate", Some(3)) >>
      [] c = "projects" -> InitialProjects
      [] c = "labels" -> InitialLabels

\* C3: the undo stack of a collection never holds more than its depth N;
\* after N + 1 pushes it holds exactly N entries and the oldest state, the
\* initial value, is the one that was discarded.
C3_BoundedHistory ==
    \A c \in Collections :
        /\ Len(HistoryOf(c).undo) <= StatedDepth[c]
        /\ pushes[c] <= StatedDepth[c] =>
              /\ Len(HistoryOf(c).undo) = pushes[c]
              /\ pushes[c] >= 1 => HistoryOf(c).undo[1] = InitialValueOf(c)
        /\ pushes[c] > StatedDepth[c] =>
              /\ Len(HistoryOf(c).undo) = StatedDepth[c]
              /\ InitialValueOf(c) \notin Range(HistoryOf(c).undo)
              /\ Last(HistoryOf(c).undo) # ValueOf(c)

C3_Witness ==
    /\ pushes = [tasks |-> 51, projects |-> 31, labels |-> 21]
    /\ Len(tasksHistory.undo) = 50
    /\ Len(projectsHistory.undo) = 30
    /\ Len(labelsHistory.undo) = 20

\* ------------------------------------------------------------------------
\* Properties of the update normalization (SpecUpdate)
\* ------------------------------------------------------------------------
\* the request with the dueDate key set to d and every other key as it was
WithDueDate(req, d) ==
    [k \in DOMAIN req \cup {"dueDate"} |-> IF k = "dueDate" THEN d ELSE req[k]]

\* the conditions under which a request gets the effective due date attached
RollsOver(req) ==
    /\ HasId(tasks, req.id)
    /\ ~FindById(tasks, req.id).completed
    /\ FindById(tasks, req.id).recurringMode = "autoRollover"
    /\ "completed" \in DOMAIN req
    /\ req.completed = TRUE
    /\ "dueDate" \notin DOMAIN req
    /\ getEffectiveDueDate(FindById(tasks, req.id)) # None

\* C10: the request handed to the update mutation carries the effective due
\* date of the stored task exactly when the task exists, is not completed,
\* is autoRollover, the request completes it without a dueDate key, and an
\* effective due date exists; every other request is forwarded unchanged.
C10_AutoRolloverNormalization ==
    [][ lastCall'.op = "updateTasks" =>
          /\ Len(sent') = Len(lastCall'.args[1])
          /\ \A i \in DOMAIN lastCall'.args[1] :
                LET req == lastCall'.args[1][i] IN
                IF RollsOver(req)
                THEN sent'[i] = WithDueDate(req, getEffectiveDueDate(FindById(tasks, req.id)))
                ELSE sent'[i] = req
      ]_vars

C10_Witness ==
    /\ lastCall.op = "updateTasks"
    /\ lastCall.args[1][1] = [id |-> "t1", completed |-> TRUE]
    /\ sent[1] = [id |-> "t1", completed |-> TRUE, dueDate |-> Some(today)]
    /\ FindById(tasks, "t1").completed
    /\ FindById(tasks, "t1").dueDate = Some(today)
    /\ steps = 1

\* ------------------------------------------------------------------------
\* Properties of the section membership (SpecSections)
\* ------------------------------------------------------------------------
\* how often taskId is listed in the sections of project
Occurrences(project, taskId) ==
    Cardinality({<<i, k>> \in (DOMAIN project.sections) \X (1..(Len(tasks) + MaxNewIds)) :
                    /\ k \in DOMAIN project.sections[i].items
                    /\ project.sections[i].items[k] = taskId})

AllListedIds ==
    UNION {Range(projects[p].sections[i].items) :
              <<p, i>> \in {<<p, i>> \in (DOMAIN projects) \X (1..3) :
                                i \in DOMAIN projects[p].sections}}

\* C1: every task id is listed at most once across the sections of any one
\* project, in every state the view actions and addTask reach.
C1_NoDuplication ==
    \A p \in DOMAIN projects : \A t \in AllListedIds : Occurrences(projects[p], t) <= 1

C1_Witness ==
    /\ lastCall.op = "moveTaskBetweenSections"
    /\ ~thrown
    /\ canUndo(projectsHistory)
    /\ "t1" \in Range(FindById(projects, "p1").sections[2].items)
    /\ "t1" \notin Range(FindById(projects, "p1").sections[1].items)
    /\ \E t \in AllListedIds : t \notin {"t1", "t2", "t3"}

\* ------------------------------------------------------------------------
\* Properties of the history stack (Spec)
\* ------------------------------------------------------------------------
\* the collection an action atom replaces through its history atom
Target(op) ==
    CASE op \in {"addComment", "bulkActions"} -> "tasks"
      [] op \in {"moveTaskBetweenSections"} -> "projects"
      [] op \in {"updateLabel", "reorderLabels"} -> "labels"
      [] OTHER -> NULL

\* the call e of the trace replaced collection c by a new value
Wrote(e, c) == Target(e.op) = c /\ e.pre[c] # e.post[c]

N == Len(trace)

\* C2: a mutation written through a collection's history atom, then undo,
\* restores the value before the mutation; a redo after that undo restores
\* the value after the mutation.
C2_UndoRedoRoundTrip ==
    \A c \in Collections :
        /\ (N >= 2 /\ Wrote(trace[N - 1], c) /\ trace[N].op = "undo")
              => ValueOf(c) = trace[N - 1].pre[c]
        /\ (N >= 3 /\ Wrote(trace[N - 2], c) /\ trace[N - 1].op = "undo"
                   /\ trace[N].op = "redo")
              => ValueOf(c) = trace[N - 2].post[c]

C2_Witness ==
    /\ N >= 3
    /\ Wrote(trace[N - 2], "tasks")
    /\ trace[N - 2].pre.tasks # trace[N - 2].post.tasks
    /\ trace[N - 1].op = "undo"
    /\ trace[N - 1].post.tasks = trace[N - 2].pre.tasks
    /\ trace[N].op = "redo"
    /\ tasks = trace[N - 2].post.tasks

\* C4: a mutation written after an undo leaves the collection without redo
\* capability, so that a following redo does not change the collection, and
\* a mutation of one collection leaves the stacks of the other two alone.
C4_LinearHistory ==
    [][ /\ \A c \in Collections :
              /\ (N' >= 2 /\ trace'[N' - 1].op = "undo" /\ Wrote(trace'[N'], c))
                    => ~canRedo(HistoryOf(c)')
              /\ (N' >= 3 /\ trace'[N' - 2].op = "undo" /\ Wrote(trace'[N' - 1], c)
                          /\ trace'[N'].op = "redo")
                    => ValueOf(c)' = trace'[N'].pre[c]
        /\ \A c \in Collections :
              (Target(lastCall'.op) \in Collections /\ Target(lastCall'.op) # c)
                    => HistoryOf(c)' = HistoryOf(c)
      ]_vars

C4_Witness ==
    /\ N >= 4
    /\ Wrote(trace[N - 3], "labels")
    /\ trace[N - 2].op = "undo"
    /\ "labels" \in trace[N - 2].post.canRedo
    /\ Wrote(trace[N - 1], "labels")
    /\ trace[N].op = "redo"
    /\ labels = trace[N].pre.labels

\* C5 as stated: after a mutation of tasks and then one of labels, the first
\* combined undo reverts the labels mutation only (tasks keeps its
\* post-mutation value) and the second one reverts the tasks mutation.
C5_UndoOneCollectionPerCall ==
    /\ (N >= 3 /\ Wrote(trace[N - 2], "tasks") /\ Wrote(trace[N - 1], "labels")
               /\ trace[N].op = "undo")
          => /\ labels = trace[N - 1].pre.labels
             /\ tasks = trace[N - 2].post.tasks
    /\ (N >= 4 /\ Wrote(trace[N - 3], "tasks") /\ Wrote(trace[N - 2], "labels")
               /\ trace[N - 1].op = "undo" /\ trace[N].op = "undo")
          => tasks = trace[N - 3].pre.tasks

\* C5 amended: the first combined undo reverts the labels mutation and the
\* tasks mutation together; a second call has nothing of the two left to
\* revert and is a no-op when no collection has older history.
C5_UndoAllCollectionsPerCall ==
    /\ (N >= 3 /\ Wrote(trace[N - 2], "tasks") /\ Wrote(trace[N - 1], "labels")
               /\ trace[N].op = "undo")
          => /\ labels = trace[N - 1].pre.labels
             /\ tasks = trace[N - 2].pre.tasks
    /\ (N >= 4 /\ Wrote(trace[N - 3], "tasks") /\ Wrote(trace[N - 2], "labels")
               /\ trace[N - 3].pre.canUndo = {}
               /\ trace[N - 1].op = "undo" /\ trace[N].op = "undo")
          => /\ Snapshot = trace[N].pre
             /\ tasks = trace[N - 3].pre.tasks

C5_Witness ==
    /\ N >= 4
    /\ Wrote(trace[N - 3], "tasks") /\ Wrote(trace[N - 2], "labels")
    /\ trace[N - 3].pre.canUndo = {}
    /\ trace[N - 3].pre.tasks # trace[N - 3].post.tasks
    /\ trace[N - 2].pre.labels # trace[N - 2].post.labels
    /\ trace[N - 1].op = "undo" /\ trace[N].op = "undo"

\* one UNDO step of withHistory on collection c, as an action
UndoStepOf(c) ==
    /\ ValueOf(c)' = Last(HistoryOf(c).undo)
    /\ HistoryOf(c)' = [undo |-> Front(HistoryOf(c).undo),
                        redo |-> Append(HistoryOf(c).redo, ValueOf(c))]

\* one REDO step of withHistory on collection c, as an action
RedoStepOf(c) ==
    /\ ValueOf(c)' = Last(HistoryOf(c).redo)
    /\ HistoryOf(c)' = [undo |-> Append(HistoryOf(c).undo, ValueOf(c)),
                        redo |-> Front(HistoryOf(c).redo)]

UnchangedOf(c) == ValueOf(c)' = ValueOf(c) /\ HistoryOf(c)' = HistoryOf(c)

\* C6: one call of the combined undo (redo) applies exactly one UNDO (REDO)
\* step to every collection that has the capability when the call starts and
\* leaves the value and the stacks of every other collection unchanged.
C6_OneStepPerCapableCollection ==
    [][ /\ lastCall'.op = "undo" =>
              \A c \in Collections :
                  IF canUndo(HistoryOf(c)) THEN UndoStepOf(c) ELSE UnchangedOf(c)
        /\ lastCall'.op = "redo" =>
              \A c \in Collections :
                  IF canRedo(HistoryOf(c)) THEN RedoStepOf(c) ELSE UnchangedOf(c)
      ]_vars

C6_Witness ==
    /\ N >= 1
    /\ trace[N].op = "undo"
    /\ trace[N].pre.canUndo = {"tasks", "projects"}
    /\ trace[N].post.canRedo = {"tasks", "projects"}
    /\ trace[N].pre.tasks # tasks
    /\ trace[N].pre.projects # projects
    /\ trace[N].pre.labels = labels

\* C7: without undo capability in any collection the combined undo changes
\* nothing and does not throw; likewise redo without redo capability.
C7_NoCapabilityIsNoOp ==
    [][ /\ (lastCall'.op = "undo" /\ ~historyCanUndo) =>
              /\ UNCHANGED <<tasks, projects, labels, tasksHistory, projectsHistory,
                             labelsHistory, lastOperation>>
              /\ thrown' = FALSE
        /\ (lastCall'.op = "redo" /\ ~historyCanRedo) =>
              /\ UNCHANGED <<tasks, projects, labels, tasksHistory, projectsHistory,
                             labelsHistory, lastOperation>>
              /\ thrown' = FALSE
      ]_vars

C7_Witness ==
    /\ N >= 2
    /\ trace[N].op = "undo"
    /\ trace[N].pre.canUndo = {}
    /\ trace[N].pre.lastOperation # None
    /\ lastOperation = trace[N].pre.lastOperation

\* C8: clearHistory leaves every collection without undo and redo capability
\* and the description null, and keeps the values of the collections.
C8_ClearHistoryResetsAll ==
    (N >= 1 /\ trace[N].op = "clearHistory") =>
        /\ \A c \in Collections : HistoryOf(c) = EmptyHistory
        /\ ~historyCanUndo /\ ~historyCanRedo
        /\ lastOperation = None
        /\ \A c \in Collections : ValueOf(c) = trace[N].pre[c]

C8_Witness ==
    /\ N >= 1
    /\ trace[N].op = "clearHistory"
    /\ trace[N].pre.canUndo # {}
    /\ trace[N].pre.canRedo # {}
    /\ ~historyCanUndo /\ ~historyCanRedo

\* C9: a combined undo that undoes something sets the description to null,
\* and a redo after it does not bring the description back.
C9_DescriptionNotUndoable ==
    /\ (N >= 1 /\ trace[N].op = "undo" /\ trace[N].pre.canUndo # {})
          => lastOperation = None
    /\ (N >= 2 /\ trace[N - 1].op = "undo" /\ trace[N - 1].pre.canUndo # {}
               /\ trace[N].op = "redo")
          => lastOperation = None

C9_Witness ==
    /\ N >= 2
    /\ trace[N - 1].op = "undo"
    /\ trace[N - 1].pre.canUndo # {}
    /\ trace[N - 1].pre.lastOperation # None
    /\ trace[N].op = "redo"
    /\ trace[N].pre.canRedo # {}
    /\ lastOperation = None

\* ------------------------------------------------------------------------
\* SpecComplete: the completion of tasks through toggleTask and bulkActions
\* ------------------------------------------------------------------------
KToggleTask ==
    \E t \in {"t1", "t2"} : CallArgs("toggleTask", <<t>>, toggleTaskAtom(t))

KBulkActions ==
    \E action \in {"complete", "archive"}, ids \in {{"t1"}, {"t1", "t2"}} :
        CallArgs("bulkActions", <<action, ids>>, bulkActionsAtom(action, ids))

NextComplete == KToggleTask \/ KBulkActions

SpecComplete == InitUpdate /\ [][NextComplete]_vars

\* C11: a step of toggleTask or of bulkActions that takes a task from
\* incomplete to completed stamps completedAt and, for an autoRollover task
\* with an effective due date, leaves that date as the task's due date; a
\* step that takes a task from completed to incomplete keeps its due date.
C11_CompletionStateMachine ==
    [][ lastCall'.op \in {"toggleTask", "bulkActions"} =>
          \A i \in DOMAIN tasks :
              (i \in DOMAIN tasks' /\ tasks'[i].id = tasks[i].id) =>
                  /\ (~tasks[i].completed /\ tasks'[i].completed) =>
                        /\ tasks'[i].completedAt # None
                        /\ (/\ tasks[i].recurringMode = "autoRollover"
                            /\ getEffectiveDueDate(tasks[i]) # None)
                              => tasks'[i].dueDate = getEffectiveDueDate(tasks[i])
                  /\ (tasks[i].completed /\ ~tasks'[i].completed) =>
                        tasks'[i].dueDate = tasks[i].dueDate
      ]_vars

\* ------------------------------------------------------------------------
\* SpecDelete: deleteTasksAtom with its delete mutation resolving or rejecting
\* ------------------------------------------------------------------------
DeleteInputs == {<<"t1">>, <<"t1", "t2">>, <<"t0">>, <<"t0", "t2">>}

DDeleteTasksStart ==
    \E ids \in DeleteInputs : CallArgs("deleteTasks", <<ids>>, deleteTasksStart(ids))

DDeleteTasksResolve ==
    \E i \in DOMAIN pendingDeletes :
        CallArgs("deleteTasksResolve", <<i>>, deleteTasksResolve(i))

DDeleteTasksReject ==
    \E i \in DOMAIN pendingDeletes :
        CallArgs("deleteTasksReject", <<i>>, deleteTasksReject(i))

DToggleTask == \E t \in {"t3"} : CallArgs("toggleTask", <<t>>, toggleTaskAtom(t))

NextDelete == DDeleteTasksStart \/ DDeleteTasksResolve \/ DDeleteTasksReject \/ DToggleTask

SpecDelete == Init /\ [][NextDelete]_vars

\* the calls a step added to effects
NewEffects == SubSeq(effects', Len(effects) + 1, Len(effects'))

\* the given ids that match a stored task
MatchedIds(ids) == {t \in Range(ids) : HasId(tasks, t)}

\* C12: a deleteTasks call with a matching id cancels the notification of
\* every deleted id before it invokes the delete mutation, and records no
\* description yet; the description (singular for one task, plural with the
\* count otherwise) is recorded when the mutation resolves; when it rejects
\* nothing is recorded and the error is thrown; a call without a matching id
\* cancels nothing and invokes no mutation.
C12_DeleteTasksOrder ==
    [][ /\ lastCall'.op = "deleteTasks" =>
              LET ids == lastCall'.args[1] IN
              IF MatchedIds(ids) # {}
              THEN /\ \E m \in DOMAIN NewEffects :
                         /\ NewEffects[m] = <<"deleteTaskMutation", "call">>
                         /\ \A k \in DOMAIN NewEffects :
                                NewEffects[k][1] = "deleteTaskMutation" => k = m
                         /\ \A d \in MatchedIds(ids) :
                                \E k \in 1..(m - 1) : NewEffects[k] = <<"cancelTask", d>>
                   /\ Len(pendingDeletes') = Len(pendingDeletes) + 1
                   /\ lastOperation' = lastOperation
                   /\ ~thrown'
              ELSE /\ UNCHANGED <<effects, pendingDeletes, tasks, lastOperation>>
                   /\ ~thrown'
        /\ lastCall'.op = "deleteTasksResolve" =>
              LET n == Len(pendingDeletes[lastCall'.args[1]].tasksToDelete) IN
              /\ lastOperation'[1] = IF n = 1 THEN "Deleted task" ELSE "Deleted tasks"
              /\ n # 1 => lastOperation'[2] = ToString(n)
              /\ effects' = effects
              /\ ~thrown'
        /\ lastCall'.op = "deleteTasksReject" =>
              /\ lastOperation' = lastOperation
              /\ thrown'
      ]_vars

C12_Witness ==
    /\ lastCall.op = "deleteTasksResolve"
    /\ effects = << <<"cancelTask", "t0">>, <<"cancelTask", "t2">>,
                    <<"deleteTaskMutation", "call">>,
                    <<"cancelTask", "t1">>, <<"deleteTaskMutation", "call">> >>
    /\ pendingDeletes = <<>>
    /\ lastOperation = <<"Deleted task", "t1">>
    /\ ~HasId(tasks, "t1") /\ ~HasId(tasks, "t2")
    /\ steps = 4

\* ------------------------------------------------------------------------
\* SpecAdd: addTaskAtom with either of its two mutations resolving or rejecting
\* ------------------------------------------------------------------------
AddInputs ==
    {[projectId |-> p, sectionId |-> s, recurringMode |-> "dueDate", dueDate |-> Some(3),
      dueTime |-> dt] :
        p \in {NULL, "p1", "pX"}, s \in {NULL, "sB"}, dt \in {None, Some(9)}}

AAddTaskStart ==
    /\ nextId + Len(pendingAdds) <= MaxNewIds
    /\ \E d \in AddInputs : CallArgs("addTask", <<d>>, addTaskStart(d))

AAddTaskResolve ==
    \E i \in DOMAIN pendingAdds : CallArgs("addTaskResolve", <<i>>, addTaskResolve(i))

AAddTaskReject ==
    \E i \in DOMAIN pendingAdds : CallArgs("addTaskReject", <<i>>, addTaskReject(i))

AAddTaskSectionsResolve ==
    \E j \in DOMAIN pendingSections :
        CallArgs("addTaskSectionsResolve", <<j>>, addTaskSectionsResolve(j))

AAddTaskSectionsReject ==
    \E j \in DOMAIN pendingSections :
        CallArgs("addTaskSectionsReject", <<j>>, addTaskSectionsReject(j))

NextAdd ==
    \/ AAddTaskStart
    \/ AAddTaskResolve
    \/ AAddTaskReject
    \/ AAddTaskSectionsResolve
    \/ AAddTaskSectionsReject

SpecAdd == Init /\ [][NextAdd]_vars

\* taskId is listed in no section of any project of ps
InNoSection(ps, taskId) ==
    \A p \in DOMAIN ps : \A i \in DOMAIN ps[p].sections :
        taskId \notin Range(ps[p].sections[i].items)

\* C13: the sections update is issued only in the step in which the create
\* mutation resolves with the id of a task that now exists; when the
\* sections update then rejects, the created task exists, is listed in no
\* section, the call throws, no description is recorded and no notification
\* is scheduled.
C13_AddTaskTwoMutations ==
    [][ /\ \A k \in DOMAIN NewEffects :
              NewEffects[k][1] = "updateProjectsMutation" =>
                  /\ lastCall'.op = "addTaskResolve"
                  /\ ~HasId(tasks, NewEffects[k][2])
                  /\ HasId(tasks', NewEffects[k][2])
        /\ lastCall'.op = "addTaskSectionsReject" =>
              LET createdTaskId == pendingSections[lastCall'.args[1]].taskId IN
              /\ HasId(tasks', createdTaskId)
              /\ InNoSection(projects', createdTaskId)
              /\ thrown'
              /\ lastOperation' = lastOperation
              /\ NewEffects = <<>>
      ]_vars

C13_Witness ==
    /\ lastCall.op = "addTaskSectionsReject"
    /\ thrown
    /\ HasId(tasks, "task-1")
    /\ FindById(tasks, "task-1").projectId = "p1"
    /\ InNoSection(projects, "task-1")
    /\ lastOperation = None
    /\ effects = << <<"createTaskMutation", "call">>, <<"updateProjectsMutation", "task-1">> >>

\* ------------------------------------------------------------------------
\* SpecViews: the move / reorder / remove actions called from every kind of view
\* ------------------------------------------------------------------------
CallView(op, args, A) ==
    /\ steps < MaxSectionSteps
    /\ A
    /\ lastCall' = [op |-> op, args |-> args]
    /\ steps' = steps + 1
    /\ UNCHANGED <<trace, pushes>>

ViewTaskInputs == {"t1", "t2", "t0"}

ViewIndexInputs == {0, 1}

VMoveTask ==
    \E t \in ViewTaskInputs, v \in ViewIdInputs, to \in ViewIndexInputs :
        CallView("moveTask", <<t, v, to>>, moveTaskAtom(t, v, Some(0), Some(to)))

VReorderTaskInView ==
    \E t \in ViewTaskInputs, v \in ViewIdInputs, to \in ViewIndexInputs :
        CallView("reorderTaskInView", <<t, v, to>>, reorderTaskInViewAtom(t, v, 0, to))

VRemoveTaskFromView ==
    \E t \in ViewTaskInputs, v \in ViewIdInputs :
        CallView("removeTaskFromView", <<t, v>>, removeTaskFromViewAtom(t, v))

VMoveTaskBetweenSections ==
    \E t \in ViewTaskInputs \cup {"t3"}, s \in {"sA", "sB"}, p \in {"p1", "pX"},
       pos \in PositionInputs :
        CallView("moveTaskBetweenSections", <<t, s, p, pos>>,
                 moveTaskBetweenSectionsAtom(t, s, p, pos))

VBulkActions ==
    \E t \in {"t1"} : CallView("bulkActions", <<"delete", t>>, bulkActionsAtom("delete", {t}))

NextViews ==
    \/ VMoveTask
    \/ VReorderTaskInView
    \/ VRemoveTaskFromView
    \/ VMoveTaskBetweenSections
    \/ VBulkActions

SpecViews == Init /\ [][NextViews]_vars

\* the resolution as the design document orders it: a project with the
\* view's id, else the inbox for the view "inbox", else the task's project
ClaimedProjectId(viewId, taskId) ==
    IF \E p \in DOMAIN projects : projects[p].id = viewId THEN viewId
    ELSE IF viewId = "inbox" THEN INBOX_PROJECT_ID
    ELSE IF \E i \in DOMAIN tasks : tasks[i].id = taskId /\ tasks[i].projectId # NULL
    THEN (CHOOSE task \in Range(tasks) : task.id = taskId).projectId
    ELSE INBOX_PROJECT_ID

\* the project with the given id lists taskId in one of its sections
ListedIn(projectId, taskId) ==
    \E p \in DOMAIN projects :
        /\ projects[p].id = projectId
        /\ \E i \in DOMAIN projects[p].sections : taskId \in Range(projects[p].sections[i].items)

\* C14: moveTask, reorderTaskInView and removeTaskFromView write the projects
\* exactly when the project the view id resolves to lists the task (and, for
\* the latter two, the task exists), and the write changes nothing but the
\* items of the section of that project that lists the task.
C14_ViewIdResolution ==
    [][ lastCall'.op \in {"moveTask", "reorderTaskInView", "removeTaskFromView"} =>
          LET t == lastCall'.args[1]
              pid == ClaimedProjectId(lastCall'.args[2], t)
          IN
          /\ (projectsHistory' # projectsHistory) <=>
                /\ ListedIn(pid, t)
                /\ lastCall'.op = "moveTask" \/ HasId(tasks, t)
          /\ \A p \in DOMAIN projects :
                /\ projects'[p].id = projects[p].id
                /\ projects'[p] # projects[p] =>
                      /\ projects[p].id = pid
                      /\ \A i \in DOMAIN projects[p].sections :
                            projects'[p].sections[i] # projects[p].sections[i] =>
                                /\ projects'[p].sections[i].id = projects[p].sections[i].id
                                /\ t \in Range(projects[p].sections[i].items)
      ]_vars

\* a reorder from the standard view "today" of t2, listed in the inbox (its
\* own project) and in p1: the inbox section changed, p1 did not
C14_Witness ==
    /\ lastCall = [op |-> "reorderTaskInView", args |-> <<"t2", "today", 0>>]
    /\ FindById(projects, "p1").sections[1].items = <<"t2", "t1", "t3">>
    /\ FindById(projects, INBOX_PROJECT_ID).sections[1].items = <<"t2">>
    /\ Len(projectsHistory.undo) = 3

\* a step that leaves tasks, projects and their stacks alone and does not throw
SilentNoOp ==
    /\ UNCHANGED <<tasks, projects, tasksHistory, projectsHistory>>
    /\ ~thrown'

\* C15 as stated: when the task, the resolved project or a section listing
\* the task is not found, moveTask, reorderTaskInView and
\* moveTaskBetweenSections end without throwing and change nothing.
C15_NotFoundIsSilent ==
    [][ /\ lastCall'.op \in {"moveTask", "reorderTaskInView"} =>
              LET t == lastCall'.args[1]
                  pid == ClaimedProjectId(lastCall'.args[2], t)
              IN (~HasId(tasks, t) \/ ~ListedIn(pid, t)) => SilentNoOp
        /\ lastCall'.op = "moveTaskBetweenSections" =>
              LET t == lastCall'.args[1]
                  pid == lastCall'.args[3]
              IN (~HasId(tasks, t) \/ ~ListedIn(pid, t)) => SilentNoOp
      ]_vars

\* C15 amended: reorderTaskInView changes nothing and does not throw when the
\* task, the project or a listing section is not found; moveTask does so
\* when the project or a listing section is not found, and does not look for
\* the task itself; moveTaskBetweenSections throws, changing nothing, when
\* the task or the project is not found, and with no section listing the
\* task it still inserts the task into the destination section.
C15_NotFoundPerAction ==
    [][ /\ lastCall'.op = "reorderTaskInView" =>
              LET t == lastCall'.args[1]
                  pid == ClaimedProjectId(lastCall'.args[2], t)
              IN (~HasId(tasks, t) \/ ~ListedIn(pid, t)) => SilentNoOp
        /\ lastCall'.op = "moveTask" =>
              LET t == lastCall'.args[1]
                  pid == ClaimedProjectId(lastCall'.args[2], t)
              IN /\ ~ListedIn(pid, t) => SilentNoOp
                 /\ ListedIn(pid, t) => projectsHistory' # projectsHistory /\ ~thrown'
        /\ lastCall'.op = "moveTaskBetweenSections" =>
              LET t == lastCall'.args[1]
                  s == lastCall'.args[2]
                  pid == lastCall'.args[3]
              IN /\ (~HasId(tasks, t) \/ ~HasId(projects, pid)) =>
                       /\ UNCHANGED <<tasks, projects, tasksHistory, projectsHistory>>
                       /\ thrown'
                 /\ (HasId(tasks, t) /\ HasId(projects, pid) /\ ~ListedIn(pid, t)) =>
                       /\ ~thrown'
                       /\ UNCHANGED <<tasks, tasksHistory>>
                       /\ projectsHistory' # projectsHistory
                       /\ \A i \in DOMAIN FindById(projects', pid).sections :
                              FindById(projects', pid).sections[i].id = s =>
                                  t \in Range(FindById(projects', pid).sections[i].items)
      ]_vars

\* t1 was deleted and stayed listed, moveTask reordered it all the same, and
\* moveTaskBetweenSections then threw for it
C15_Witness ==
    /\ lastCall.op = "moveTaskBetweenSections"
    /\ lastCall.args[1] = "t1"
    /\ thrown
    /\ ~HasId(tasks, "t1")
    /\ FindById(projects, "p1").sections[1].items = <<"t3", "t1">>
    /\ Len(projectsHistory.undo) = 1

\* the items of the section sectionId of the project projectId in ps
ItemsOf(ps, projectId, sectionId) ==
    LET project == CHOOSE q \in Range(ps) : q.id = projectId
        section == CHOOSE x \in Range(project.sections) : x.id = sectionId
    IN  section.items

\* the section of the project projectId that lists taskId
SectionListing(projectId, taskId) ==
    LET project == CHOOSE q \in Range(projects) : q.id = projectId
    IN  (CHOOSE x \in Range(project.sections) : taskId \in Range(x.items)).id

\* C16: moveTaskBetweenSections of a task t listed in section A of a project
\* to another section B of it at index p leaves A with its former items
\* without t in their order, B with its former items and t at index p (at
\* the end without p), and every other section and project as it was.
C16_MoveBetweenSections ==
    [][ lastCall'.op = "moveTaskBetweenSections" =>
          LET t == lastCall'.args[1]
              B == lastCall'.args[2]
              pid == lastCall'.args[3]
              pos == lastCall'.args[4]
          IN
          (/\ HasId(tasks, t)
           /\ ListedIn(pid, t)
           /\ B \in {x.id : x \in Range(FindById(projects, pid).sections)}
           /\ B # SectionListing(pid, t)
           /\ pos # None => pos[1] <= Len(ItemsOf(projects, pid, B)))
          =>
          LET A == SectionListing(pid, t)
              oldA == ItemsOf(projects, pid, A)
              oldB == ItemsOf(projects, pid, B)
          IN
          /\ ItemsOf(projects', pid, A) = SelectSeq(oldA, LAMBDA x : x # t)
          /\ ItemsOf(projects', pid, B) =
                IF pos = None THEN oldB \o <<t>>
                ELSE SubSeq(oldB, 1, pos[1]) \o <<t>> \o SubSeq(oldB, pos[1] + 1, Len(oldB))
          /\ \A p \in DOMAIN projects :
                /\ projects[p].id # pid => projects'[p] = projects[p]
                /\ projects[p].id = pid =>
                      /\ Len(projects'[p].sections) = Len(projects[p].sections)
                      /\ \A i \in DOMAIN projects[p].sections :
                            projects[p].sections[i].id \notin {A, B} =>
                                projects'[p].sections[i] = projects[p].sections[i]
          /\ ~thrown'
      ]_vars

\* the scenario of the design document: A = [t1, t2], B = [t3], t2 to B at 0
C16_Witness ==
    /\ lastCall = [op |-> "moveTaskBetweenSections", args |-> <<"t2", "sB", "p1", Some(0)>>]
    /\ ItemsOf(projects, "p1", "sA") = <<"t1">>
    /\ ItemsOf(projects, "p1", "sB") = <<"t2", "t3">>
    /\ Last(projectsHistory.undo) =
          << InitialProjects[1],
             [id |-> "p1", sections |-> << [id |-> "sA", items |-> <<"t1", "t2">>],
                                           [id |-> "sB", items |-> <<"t3">>] >>] >>

\* C17: a reorderTaskInView or moveTask of a task to the index it already has
\* in the section that lists it (in the project the view resolves to) leaves
\* the projects collection equal to what it was.
C17_OrderingIdempotence ==
    [][ lastCall'.op \in {"reorderTaskInView", "moveTask"} =>
          LET t == lastCall'.args[1]
              pid == ClaimedProjectId(lastCall'.args[2], t)
              to == lastCall'.args[3]
          IN
          (/\ HasId(tasks, t)
           /\ ListedIn(pid, t)
           /\ LET items == ItemsOf(projects, pid, SectionListing(pid, t))
              IN  to + 1 \in DOMAIN items /\ items[to + 1] = t)
          => projects' = projects /\ ~thrown'
      ]_vars

\* t1 was reordered to index 1 of a two-item section where it was already:
\* the write happened (the history holds the equal previous value)
C17_Witness ==
    /\ lastCall.op = "reorderTaskInView"
    /\ lastCall.args[1] = "t1" /\ lastCall.args[3] = 1
    /\ ItemsOf(projects, "p1", "sA") = <<"t3", "t1">>
    /\ Len(projectsHistory.undo) >= 2
    /\ Last(projectsHistory.undo) = projects

\* ------------------------------------------------------------------------
\* Ordered reads (data/tasks/ordering; design document 4.1)
\* ------------------------------------------------------------------------
\* variant: the mapping stops at the first id with no matching task
getOrderedTasksForSectionStopsAtStale(section, allTasks) ==
    LET items == section.items
        stale == {i \in DOMAIN items : ~HasId(allTasks, items[i])}
        n == IF stale = {} THEN Len(items)
             ELSE (CHOOSE i \in stale : \A j \in stale : i <= j) - 1
    IN  [i \in 1..n |-> FindById(allTasks, items[i])]

\* the section's ids mapped to tasks in the ids' order, ids with no task dropped
getOrderedTasksForSection(section, allTasks) ==
    LET mapped == [i \in DOMAIN section.items |->
                      IF HasId(allTasks, section.items[i])
                      THEN Some(FindById(allTasks, section.items[i])) ELSE None]
        found == SelectSeq(mapped, LAMBDA m : m # None)
    IN  [i \in DOMAIN found |-> found[i][1]]

RECURSIVE ConcatSections(_, _)
ConcatSections(sections, allTasks) ==
    IF sections = <<>> THEN <<>>
    ELSE getOrderedTasksForSection(Head(sections), allTasks)
            \o ConcatSections(Tail(sections), allTasks)

\* the sections' ordered tasks concatenated in section order; the inbox with
\* no stored project is the tasks with no project reference
getOrderedTasksForProject(projectId, allTasks, allProjects) ==
    IF HasId(allProjects, projectId)
    THEN ConcatSections(FindById(allProjects, projectId).sections, allTasks)
    ELSE IF projectId = INBOX_PROJECT_ID
    THEN SelectSeq(allTasks, LAMBDA t : t.projectId = NULL)
    ELSE <<>>

\* activeTasksAtom (data/tasks/filters): the tasks that are not archived
activeTasks == SelectSeq(tasks, LAMBDA t : t.status # "archived")

\* isToday (date utilities)
isToday(date) == date = today

\* ------------------------------------------------------------------------
\* Derived read atoms (tasks.ts 498-606, 1029-1138; labels.ts 39-117)
\* An evaluation may fail while it reads an atom it depends on ("get") or
\* later in its computation ("body").
\* ------------------------------------------------------------------------
FailureInputs == {"none", "get", "body"}

\* withErrorHandling(fn, name, fallback) (utils/atom-helpers): the value of
\* fn, the fallback when fn throws
withErrorHandling(failed, value, fallback) == IF failed THEN fallback ELSE value

readVars == <<tasks, projects, labels, tasksHistory, projectsHistory, labelsHistory,
              lastOperation, nextId, today, sent, pendingAdds, pendingSections,
              pendingDeletes, effects, inflight>>

ReadReturns(op, value) ==
    /\ returned' = [op |-> op, value |-> value]
    /\ thrown' = FALSE
    /\ UNCHANGED readVars

ReadThrows ==
    /\ thrown' = TRUE
    /\ UNCHANGED <<returned, readVars>>

todayOnlyAtom(fails) ==
    ReadReturns("todayOnly",
        withErrorHandling(fails # "none",
            SelectSeq(activeTasks, LAMBDA t : t.dueDate # None /\ isToday(t.dueDate[1])),
            <<>>))

completedTasksTodayAtom(fails) ==
    ReadReturns("completedTasksToday",
        withErrorHandling(fails # "none",
            SelectSeq(activeTasks, LAMBDA t : /\ t.completed
                                              /\ t.completedAt # None
                                              /\ isToday(t.completedAt[1])),
            <<>>))

getTasksForViewAtom(viewId, fails) ==
    LET projectId == IF viewId = "inbox" THEN INBOX_PROJECT_ID
                     ELSE IF HasId(projects, viewId) THEN viewId
                     ELSE INBOX_PROJECT_ID
    IN  ReadReturns("getTasksForView",
            withErrorHandling(fails # "none",
                getOrderedTasksForProject(projectId, tasks, projects), <<>>))

\* the Map as its entries <<key, value>> in insertion order; no error handling
orderedTasksByProjectAtom(fails) ==
    IF fails # "none" THEN ReadThrows
    ELSE ReadReturns("orderedTasksByProject",
            [i \in DOMAIN projects |->
                <<projects[i].id, getOrderedTasksForProject(projects[i].id, tasks, projects)>>]
            \o << <<"inbox", getOrderedTasksForProject(INBOX_PROJECT_ID, tasks, projects)>> >>)

orderedTasksBySectionAtom(projectId, sectionId, fails) ==
    LET actualProjectId == IF projectId = "inbox" THEN INBOX_PROJECT_ID ELSE projectId
        project == FindById(projects, actualProjectId)
        targetSectionId == IF sectionId # NULL THEN sectionId
                           ELSE getDefaultSectionId(project)
    IN  ReadReturns("orderedTasksBySection",
            withErrorHandling(fails # "none",
                IF ~HasId(projects, actualProjectId) THEN <<>>
                ELSE IF targetSectionId = NULL THEN <<>>
                ELSE IF ~HasId(project.sections, targetSectionId) THEN <<>>
                ELSE getOrderedTasksForSection(FindById(project.sections, targetSectionId),
                                               tasks),
                <<>>))

\* the value of labelsMapAtom: entries <<id, label>>, empty when it failed
labelsMap(fails) ==
    withErrorHandling(fails # "none",
        [i \in DOMAIN labels |-> <<labels[i].id, labels[i]>>], <<>>)

\* Map.prototype.get as an optional value
MapGet(m, key) ==
    IF \E i \in DOMAIN m : m[i][1] = key
    THEN Some(m[CHOOSE i \in DOMAIN m : m[i][1] = key][2])
    ELSE None

labelsMapAtom(fails) == ReadReturns("labelsMap", labelsMap(fails))

\* labelsMapAtom is read outside the handler and does not throw
labelByIdAtom(id, fails) ==
    LET map == labelsMap(IF fails = "get" THEN "get" ELSE "none")
    IN  ReadReturns("labelById", withErrorHandling(fails = "body", MapGet(map, id), None))

\* labelsAtom is read outside the handler
labelByNameAtom(name, fails) ==
    IF fails = "get" THEN ReadThrows
    ELSE ReadReturns("labelByName",
            withErrorHandling(fails = "body",
                IF \E i \in DOMAIN labels : labels[i].name = name
                THEN Some(labels[CHOOSE i \in DOMAIN labels :
                            /\ labels[i].name = name
                            /\ \A j \in 1..(i - 1) : labels[j].name # name])
                ELSE None,
                None))

labelNamesFromIdsAtom(labelIds, fails) ==
    LET map == labelsMap(IF fails = "get" THEN "get" ELSE "none")
    IN  ReadReturns("labelNamesFromIds",
            withErrorHandling(fails = "body",
                [i \in DOMAIN labelIds |->
                    IF MapGet(map, labelIds[i]) # None
                    THEN MapGet(map, labelIds[i])[1].name ELSE labelIds[i]],
                <<>>))

labelsFromIdsAtom(labelIds, fails) ==
    LET map == labelsMap(IF fails = "get" THEN "get" ELSE "none")
        found == SelectSeq(labelIds, LAMBDA id : MapGet(map, id) # None)
    IN  ReadReturns("labelsFromIds",
            withErrorHandling(fails = "body",
                [i \in DOMAIN found |-> MapGet(map, found[i])[1]], <<>>))

\* ------------------------------------------------------------------------
\* SpecReads: the derived reads, evaluated between bulk deletions (which
\* leave the deleted ids in the sections) and reorders
\* ------------------------------------------------------------------------
ReadProjectInputs == {"inbox", "p1", "pX"}

ReadSectionInputs == {NULL, "sA", "sB", "sX"}

ReadLabelIdInputs == {"l1", "lX"}

RBulkActions ==
    \E t \in {"t1", "t3"} :
        CallView("bulkActions", <<"delete", t>>, bulkActionsAtom("delete", {t}))

RReorderTaskInView ==
    \E t \in {"t1", "t3"}, to \in ViewIndexInputs :
        CallView("reorderTaskInView", <<t, "p1", to>>, reorderTaskInViewAtom(t, "p1", 0, to))

ROrderedTasksBySection ==
    \E p \in ReadProjectInputs, s \in ReadSectionInputs, fails \in FailureInputs :
        CallView("orderedTasksBySection", <<fails, p, s>>,
                 orderedTasksBySectionAtom(p, s, fails))

RGetTasksForView ==
    \E v \in ViewIdInputs, fails \in FailureInputs :
        CallView("getTasksForView", <<fails, v>>, getTasksForViewAtom(v, fails))

ROrderedTasksByProject ==
    \E fails \in FailureInputs :
        CallView("orderedTasksByProject", <<fails>>, orderedTasksByProjectAtom(fails))

RTodayOnly ==
    \E fails \in FailureInputs : CallView("todayOnly", <<fails>>, todayOnlyAtom(fails))

RCompletedTasksToday ==
    \E fails \in FailureInputs :
        CallView("completedTasksToday", <<fails>>, completedTasksTodayAtom(fails))

RLabelsMap ==
    \E fails \in FailureInputs : CallView("labelsMap", <<fails>>, labelsMapAtom(fails))

RLabelById ==
    \E id \in ReadLabelIdInputs, fails \in FailureInputs :
        CallView("labelById", <<fails, id>>, labelByIdAtom(id, fails))

RLabelByName ==
    \E name \in {"Work", "Play"}, fails \in FailureInputs :
        CallView("labelByName", <<fails, name>>, labelByNameAtom(name, fails))

RLabelNamesFromIds ==
    \E ids \in {<<"l2", "lX", "l1">>}, fails \in FailureInputs :
        CallView("labelNamesFromIds", <<fails>>, labelNamesFromIdsAtom(ids, fails))

RLabelsFromIds ==
    \E ids \in {<<"l2", "lX", "l1">>}, fails \in FailureInputs :
        CallView("labelsFromIds", <<fails>>, labelsFromIdsAtom(ids, fails))

NextReads ==
    \/ RBulkActions
    \/ RReorderTaskInView
    \/ ROrderedTasksBySection
    \/ RGetTasksForView
    \/ ROrderedTasksByProject
    \/ RTodayOnly
    \/ RCompletedTasksToday
    \/ RLabelsMap
    \/ RLabelById
    \/ RLabelByName
    \/ RLabelNamesFromIds
    \/ RLabelsFromIds

SpecReads == Init /\ [][NextReads]_vars

\* C18: an orderedTasksBySection read of a section whose items hold ids with
\* no matching task returns the tasks of the ids that exist, one per such id
\* and in the order of the items, and does not throw.
C18_StaleIdTolerance ==
    [][ (/\ lastCall'.op = "orderedTasksBySection"
         /\ lastCall'.args[1] = "none"
         /\ lastCall'.args[2] \in {"p1"}
         /\ lastCall'.args[3] \in {"sA", "sB"})
        =>
        LET items == ItemsOf(projects, lastCall'.args[2], lastCall'.args[3])
            live == SelectSeq(items, LAMBDA id : \E t \in Range(tasks) : t.id = id)
            value == returned'.value
        IN  /\ ~thrown'
            /\ returned'.op = "orderedTasksBySection"
            /\ Len(value) = Len(live)
            /\ \A i \in DOMAIN live : value[i].id = live[i] /\ value[i] \in Range(tasks)
      ]_vars

\* section sA lists the deleted t1 before t3, and the read returned t3 alone
C18_Witness ==
    /\ lastCall = [op |-> "orderedTasksBySection", args |-> <<"none", "p1", "sA">>]
    /\ ItemsOf(projects, "p1", "sA") = <<"t1", "t3">>
    /\ ~HasId(tasks, "t1")
    /\ Len(returned.value) = 1 /\ returned.value[1].id = "t3"
    /\ ~thrown

\* the reads the design document lists as never throwing
ReadAtoms == {"getTasksForView", "orderedTasksBySection", "orderedTasksByProject",
              "todayOnly", "completedTasksToday", "labelsMap", "labelById",
              "labelByName", "labelsFromIds"}

\* C19: a derived read whose computation fails returns its empty fallback
\* (empty array, empty map, undefined) and does not propagate the error.
C19_ReadsNeverThrow ==
    [][ (lastCall'.op \in ReadAtoms /\ lastCall'.args[1] # "none")
        => /\ ~thrown'
           /\ returned' = [op |-> lastCall'.op, value |-> <<>>]
      ]_vars

\* ------------------------------------------------------------------------
\* The catch blocks of the write action atoms (tasks.ts, labels.ts): what an
\* atom does with an error thrown in its try block before it wrote anything
\* ------------------------------------------------------------------------
catchVars == <<tasks, projects, labels, tasksHistory, projectsHistory, labelsHistory,
               lastOperation, nextId, today, sent, pendingAdds, pendingSections,
               pendingDeletes, returned, inflight>>

\* handleAtomError(error, atomName) (utils/atom-helpers): logs, returns
handleAtomError(atomName) == effects' = Append(effects, <<"handleAtomError", atomName>>)

addTaskAtomCatch ==
    /\ handleAtomError("addTaskAtom")
    /\ thrown' = TRUE
    /\ UNCHANGED catchVars

updateTasksAtomCatch ==
    /\ handleAtomError("updateTasksAtom")
    /\ thrown' = TRUE
    /\ UNCHANGED catchVars

updateTaskAtomCatch ==
    /\ handleAtomError("updateTaskAtom")
    /\ thrown' = TRUE
    /\ UNCHANGED catchVars

deleteTasksAtomCatch ==
    /\ handleAtomError("deleteTasksAtom")
    /\ thrown' = TRUE
    /\ UNCHANGED catchVars

deleteTaskAtomCatch ==
    /\ handleAtomError("deleteTaskAtom")
    /\ thrown' = TRUE
    /\ UNCHANGED catchVars

toggleTaskAtomCatch ==
    /\ handleAtomError("toggleTaskAtom")
    /\ thrown' = TRUE
    /\ UNCHANGED catchVars

addCommentAtomCatch ==
    /\ handleAtomError("addCommentAtom")
    /\ thrown' = FALSE
    /\ UNCHANGED catchVars

bulkActionsAtomCatch ==
    /\ handleAtomError("bulkActionsAtom")
    /\ thrown' = FALSE
    /\ UNCHANGED catchVars

moveTaskAtomCatch ==
    /\ handleAtomError("moveTaskAtom")
    /\ thrown' = FALSE
    /\ UNCHANGED catchVars

reorderTaskInViewAtomCatch ==
    /\ handleAtomError("reorderTaskInViewAtom")
    /\ thrown' = FALSE
    /\ UNCHANGED catchVars

addTaskToViewAtomCatch ==
    /\ handleAtomError("addTaskToViewAtom")
    /\ thrown' = FALSE
    /\ UNCHANGED catchVars

removeTaskFromViewAtomCatch ==
    /\ handleAtomError("removeTaskFromViewAtom")
    /\ thrown' = FALSE
    /\ UNCHANGED catchVars

addLabelAtomCatch ==
    /\ handleAtomError("addLabelAtom")
    /\ thrown' = TRUE
    /\ UNCHANGED catchVars

updateLabelAtomCatch ==
    /\ handleAtomError("updateLabelAtom")
    /\ thrown' = FALSE
    /\ UNCHANGED catchVars

deleteLabelAtomCatch ==
    /\ handleAtomError("deleteLabelAtom")
    /\ thrown' = TRUE
    /\ UNCHANGED catchVars

reorderLabelsAtomCatch ==
    /\ handleAtomError("reorderLabelsAtom")
    /\ thrown' = TRUE
    /\ UNCHANGED catchVars

\* log.error(...) and throw error
moveTaskBetweenSectionsAtomCatch ==
    /\ effects' = Append(effects, <<"log.error", "moveTaskBetweenSectionsAtom">>)
    /\ thrown' = TRUE
    /\ UNCHANGED catchVars

WriteAtoms == {"addTask", "updateTasks", "updateTask", "deleteTasks", "deleteTask",
               "toggleTask", "addComment", "bulkActions", "moveTask",
               "moveTaskBetweenSections", "reorderTaskInView", "addTaskToView",
               "removeTaskFromView", "addLabel", "updateLabel", "deleteLabel",
               "reorderLabels"}

CatchOf(op) ==
    CASE op = "addTask" -> addTaskAtomCatch
      [] op = "updateTasks" -> updateTasksAtomCatch
      [] op = "updateTask" -> updateTaskAtomCatch
      [] op = "deleteTasks" -> deleteTasksAtomCatch
      [] op = "deleteTask" -> deleteTaskAtomCatch
      [] op = "toggleTask" -> toggleTaskAtomCatch
      [] op = "addComment" -> addCommentAtomCatch
      [] op = "bulkActions" -> bulkActionsAtomCatch
      [] op = "moveTask" -> moveTaskAtomCatch
      [] op = "moveTaskBetweenSections" -> moveTaskBetweenSectionsAtomCatch
      [] op = "reorderTaskInView" -> reorderTaskInViewAtomCatch
      [] op = "addTaskToView" -> addTaskToViewAtomCatch
      [] op = "removeTaskFromView" -> removeTaskFromViewAtomCatch
      [] op = "addLabel" -> addLabelAtomCatch
      [] op = "updateLabel" -> updateLabelAtomCatch
      [] op = "deleteLabel" -> deleteLabelAtomCatch
      [] op = "reorderLabels" -> reorderLabelsAtomCatch

\* ------------------------------------------------------------------------
\* SpecErrors: write atoms that fail, between calls that go through
\* ------------------------------------------------------------------------
EWriteFails ==
    \E op \in WriteAtoms : CallView(op, <<"fails">>, CatchOf(op))

EMoveTaskBetweenSections ==
    \E t \in {"t1", "t0"}, s \in {"sA", "sB"} :
        CallView("moveTaskBetweenSections", <<t, s, "p1", None>>,
                 moveTaskBetweenSectionsAtom(t, s, "p1", None))

EBulkActions ==
    \E action \in {"complete", "archive"} :
        CallView("bulkActions", <<action, "t1">>, bulkActionsAtom(action, {"t1"}))

NextErrors ==
    \/ EWriteFails
    \/ EMoveTaskBetweenSections
    \/ EBulkActions

SpecErrors == Init /\ [][NextErrors]_vars

\* C20: a write action atom that hits an error during its execution logs it
\* and re-throws it to the caller.
C20_WritesRethrow ==
    [][ (lastCall'.op \in WriteAtoms /\ lastCall'.args = <<"fails">>)
        => /\ Len(effects') = Len(effects) + 1
           /\ Last(effects')[1] \in {"handleAtomError", "log.error"}
           /\ Last(effects')[2] = lastCall'.op \o "Atom"
           /\ thrown'
      ]_vars

\* ------------------------------------------------------------------------
\* labels.ts: addLabelAtom, addLabelAndWaitForRealIdAtom; the label-creating
\* UI handler (quick-add-dialog.tsx, task-side-panel.tsx, TaskItem)
\* ------------------------------------------------------------------------
\* String.prototype.toLowerCase over the names in use
toLowerCase(name) ==
    CASE name = "Work" -> "work"
      [] name = "Home" -> "home"
      [] name = "Play" -> "play"
      [] name = "Job" -> "job"
      [] name = "Gig" -> "gig"
      [] OTHER -> name

\* up to createLabelMutation.mutateAsync(labelData): the label is inserted
\* locally under a temporary id and the request is in flight
addLabelStart(labelData) ==
    /\ labels' = Append(labels, [id |-> FreshId("temp-"), name |-> labelData.name])
    /\ nextId' = nextId + 1
    /\ inflight' = Append(inflight, [op |-> "createLabel", name |-> labelData.name,
                                     optimisticId |-> FreshId("temp-")])
    /\ effects' = Append(effects, <<"createLabelMutation", "call">>)
    /\ thrown' = FALSE
    /\ UNCHANGED <<tasks, projects, tasksHistory, projectsHistory, labelsHistory,
                   lastOperation, today, sent, pendingAdds, pendingSections,
                   pendingDeletes, returned>>

\* up to createLabelWithoutOptimisticUpdate.mutateAsync(labelData)
addLabelAndWaitForRealIdStart(labelData) ==
    /\ inflight' = Append(inflight, [op |-> "createLabel", name |-> labelData.name,
                                     optimisticId |-> NULL])
    /\ effects' = Append(effects, <<"createLabelWithoutOptimisticUpdate", "call">>)
    /\ thrown' = FALSE
    /\ UNCHANGED <<tasks, projects, labels, tasksHistory, projectsHistory, labelsHistory,
                   lastOperation, nextId, today, sent, pendingAdds, pendingSections,
                   pendingDeletes, returned>>

\* the create mutation resolves with the server's id: the label is in the
\* collection under that id and the operation is recorded
addLabelResolve(i) ==
    LET call == inflight[i]
        newLabelId == FreshId("label-")
    IN
    /\ i \in DOMAIN inflight
    /\ call.op = "createLabel"
    /\ labels' = IF call.optimisticId = NULL
                 THEN Append(labels, [id |-> newLabelId, name |-> call.name])
                 ELSE [k \in DOMAIN labels |->
                          IF labels[k].id = call.optimisticId
                          THEN [labels[k] EXCEPT !.id = newLabelId] ELSE labels[k]]
    /\ nextId' = nextId + 1
    /\ inflight' = RemoveAt(inflight, i)
    /\ lastOperation' = <<"Added label", call.name>>
    /\ thrown' = FALSE
    /\ UNCHANGED <<tasks, projects, tasksHistory, projectsHistory, labelsHistory,
                   today, sent, pendingAdds, pendingSections, pendingDeletes,
                   effects, returned>>

\* the create mutation rejects: the local insert is taken back,
\* handleAtomError, throw
addLabelReject(i) ==
    LET call == inflight[i]
    IN
    /\ i \in DOMAIN inflight
    /\ call.op = "createLabel"
    /\ labels' = SelectSeq(labels, LAMBDA l : l.id # call.optimisticId)
    /\ inflight' = RemoveAt(inflight, i)
    /\ thrown' = TRUE
    /\ UNCHANGED <<tasks, projects, tasksHistory, projectsHistory, labelsHistory,
                   lastOperation, nextId, today, sent, pendingAdds, pendingSections,
                   pendingDeletes, effects, returned>>

\* handleAddLabel(labelName): the look-up among the labels the component
\* rendered with, the creation when none has the name in lower case
handleAddLabel(labelName) ==
    IF \E l \in Range(labels) : toLowerCase(l.name) = toLowerCase(labelName)
    THEN /\ thrown' = FALSE
         /\ UNCHANGED <<tasks, projects, labels, tasksHistory, projectsHistory,
                        labelsHistory, lastOperation, nextId, today, sent, ioVars>>
    ELSE addLabelAndWaitForRealIdStart([name |-> labelName])

\* ------------------------------------------------------------------------
\* SpecLabels: the label collection under reorders, renames, creations and
\* the combined undo / redo
\* ------------------------------------------------------------------------
LabelIndexInputs == {-1, 0, 1, 2, 3}

LabelNameInputs == {"Work", "work", "Play"}

LReorderLabels ==
    \E from \in LabelIndexInputs, to \in LabelIndexInputs :
        CallView("reorderLabels", <<from, to>>, reorderLabelsAtom(from, to))

LUpdateLabel ==
    \E id \in {"l1", "l2"}, n \in LabelNameInputs :
        CallView("updateLabel", <<id, n>>, updateLabelAtom(id, [name |-> n]))

LUndo == CallView("undo", <<>>, undoAtom)

LRedo == CallView("redo", <<>>, redoAtom)

LHandleAddLabel ==
    \E n \in LabelNameInputs : CallView("handleAddLabel", <<n>>, handleAddLabel(n))

LAddLabel ==
    \E n \in LabelNameInputs : CallView("addLabel", <<n>>, addLabelStart([name |-> n]))

LAddLabelResolve ==
    \E i \in DOMAIN inflight : CallView("addLabelResolve", <<i>>, addLabelResolve(i))

LAddLabelReject ==
    \E i \in DOMAIN inflight : CallView("addLabelReject", <<i>>, addLabelReject(i))

NextLabels ==
    \/ LReorderLabels
    \/ LUpdateLabel
    \/ LUndo
    \/ LRedo
    \/ LHandleAddLabel
    \/ LAddLabel
    \/ LAddLabelResolve
    \/ LAddLabelReject

SpecLabels == Init /\ [][NextLabels]_vars

\* an index pair reorderLabels rejects
OutOfRange(from, to) == from < 0 \/ to < 0 \/ from >= Len(labels) \/ to > Len(labels)

\* C21: reorderLabels with an index out of range raises an error and leaves
\* the labels and their undo / redo stacks as they were; with two equal
\* indices in range it returns and changes neither.
C21_ReorderLabelsValidation ==
    [][ lastCall'.op = "reorderLabels" =>
          LET from == lastCall'.args[1]
              to == lastCall'.args[2]
          IN  /\ OutOfRange(from, to) =>
                    thrown' /\ labels' = labels /\ labelsHistory' = labelsHistory
              /\ (~OutOfRange(from, to) /\ from = to) =>
                    ~thrown' /\ labels' = labels /\ labelsHistory' = labelsHistory
              /\ ~OutOfRange(from, to) => ~thrown'
      ]_vars

\* a reorder to an index past the end was rejected after an accepted reorder
C21_Witness ==
    /\ lastCall = [op |-> "reorderLabels", args |-> <<0, 3>>]
    /\ thrown
    /\ Len(labelsHistory.undo) = 1
    /\ labels[1].id = "l2"

\* C22: no two labels of the collection have names that are equal ignoring
\* case.
C22_LabelNamesUnique ==
    \A i, j \in DOMAIN labels :
        i # j => toLowerCase(labels[i].name) # toLowerCase(labels[j].name)

\* ------------------------------------------------------------------------
\* SelectionToolbar (tasks.ts 1234-1330): the bulk handlers set tasksAtom
\* ------------------------------------------------------------------------
\* handleBulkComplete: updateTasks(selectedTaskIds.map(id => ({id, completed: true})))
\* where updateTasks is the setter of tasksAtom; the requests are applied to
\* the stored tasks and handed to the update mutation
handleBulkComplete(selectedTaskIds) ==
    LET updates == [i \in DOMAIN selectedTaskIds |->
                       [id |-> selectedTaskIds[i], completed |-> TRUE]]
    IN
    /\ tasks' = ApplyUpdates(tasks, updates)
    /\ sent' = updates
    /\ thrown' = FALSE
    /\ UNCHANGED <<projects, labels, tasksHistory, projectsHistory, labelsHistory,
                   lastOperation, nextId, today, ioVars>>

\* ------------------------------------------------------------------------
\* SpecWrites: every path that replaces a collection, with undo / redo
\* ------------------------------------------------------------------------
WAddComment ==
    CallView("addComment", <<"t1">>,
             addCommentAtom([taskId |-> "t1", id |-> NULL, content |-> "hi"]))

WBulkActions ==
    \E action \in {"complete", "delete", "archive"} :
        CallView("bulkActions", <<action>>, bulkActionsAtom(action, {"t1"}))

WMoveTaskBetweenSections ==
    \E s \in {"sA", "sB"} :
        CallView("moveTaskBetweenSections", <<"t1", s>>,
                 moveTaskBetweenSectionsAtom("t1", s, "p1", None))

WReorderTaskInView ==
    \E to \in ViewIndexInputs :
        CallView("reorderTaskInView", <<"t1", to>>, reorderTaskInViewAtom("t1", "p1", 0, to))

WUpdateLabel ==
    \E n \in {"Work", "Job"} :
        CallView("updateLabel", <<"l1", n>>, updateLabelAtom("l1", [name |-> n]))

WReorderLabels ==
    \E to \in {0, 1} : CallView("reorderLabels", <<0, to>>, reorderLabelsAtom(0, to))

WUndo == CallView("undo", <<>>, undoAtom)

WRedo == CallView("redo", <<>>, redoAtom)

WAddTaskStart ==
    \E d \in {x \in AddInputs : x.dueTime = None /\ x.projectId # "pX"} :
        CallView("addTask", <<d>>, addTaskStart(d))

WAddTaskResolve ==
    \E i \in DOMAIN pendingAdds : CallView("addTaskResolve", <<i>>, addTaskResolve(i))

WAddTaskSectionsResolve ==
    \E j \in DOMAIN pendingSections :
        CallView("addTaskSectionsResolve", <<j>>, addTaskSectionsResolve(j))

WDeleteTasksStart ==
    \E ids \in {<<"t1">>, <<"t0">>} : CallView("deleteTasks", <<ids>>, deleteTasksStart(ids))

WDeleteTasksResolve ==
    \E i \in DOMAIN pendingDeletes :
        CallView("deleteTasksResolve", <<i>>, deleteTasksResolve(i))

WDeleteTasksReject ==
    \E i \in DOMAIN pendingDeletes :
        CallView("deleteTasksReject", <<i>>, deleteTasksReject(i))

WToggleTask == CallView("toggleTask", <<"t2">>, toggleTaskAtom("t2"))

WAddLabel == CallView("addLabel", <<"Play">>, addLabelStart([name |-> "Play"]))

WAddLabelResolve ==
    \E i \in DOMAIN inflight : CallView("addLabelResolve", <<i>>, addLabelResolve(i))

WHandleBulkComplete ==
    \E ids \in {<<"t1">>, <<"t1", "t2">>} :
        CallView("handleBulkComplete", <<ids>>, handleBulkComplete(ids))

NextWrites ==
    \/ WAddComment
    \/ WBulkActions
    \/ WMoveTaskBetweenSections
    \/ WReorderTaskInView
    \/ WUpdateLabel
    \/ WReorderLabels
    \/ WUndo
    \/ WRedo
    \/ WAddTaskStart
    \/ WAddTaskResolve
    \/ WAddTaskSectionsResolve
    \/ WDeleteTasksStart
    \/ WDeleteTasksResolve
    \/ WDeleteTasksReject
    \/ WToggleTask
    \/ WAddLabel
    \/ WAddLabelResolve
    \/ WHandleBulkComplete

SpecWrites == Init /\ [][NextWrites]_vars

\* the calls that replace a collection by setting its history-wrapped atom
HistoryPaths == {"addComment", "bulkActions", "moveTaskBetweenSections",
                 "reorderTaskInView", "updateLabel", "reorderLabels"}

\* the calls that go through a remote mutation or set a base atom
DirectPaths == {"addTask", "addTaskResolve", "addTaskSectionsResolve", "deleteTasks",
                "deleteTasksResolve", "deleteTasksReject", "toggleTask", "addLabel",
                "addLabelResolve", "handleBulkComplete"}

CallAdd(op, args, A) ==
    /\ steps < MaxAddSteps
    /\ A
    /\ lastCall' = [op |-> op, args |-> args]
    /\ steps' = steps + 1
    /\ UNCHANGED <<trace, pushes>>

ConcurrentAddInputs == {x \in AddInputs : x.projectId = "p1"}

CAddTaskStart ==
    /\ nextId + Len(pendingAdds) <= MaxNewIds
    /\ \E d \in ConcurrentAddInputs : CallAdd("addTask", <<d>>, addTaskStart(d))

CAddTaskResolve ==
    \E i \in DOMAIN pendingAdds : CallAdd("addTaskResolve", <<i>>, addTaskResolve(i))

CAddTaskSectionsResolve ==
    \E j \in DOMAIN pendingSections :
        CallAdd("addTaskSectionsResolve", <<j>>, addTaskSectionsResolve(j))

NextConcurrentAdd ==
    \/ CAddTaskStart
    \/ CAddTaskResolve
    \/ CAddTaskSectionsResolve

SpecConcurrentAdd == Init /\ [][NextConcurrentAdd]_vars

TargetOf(op) ==
    CASE op \in {"addComment", "bulkActions"} -> "tasks"
      [] op \in {"moveTaskBetweenSections", "reorderTaskInView"} -> "projects"
      [] op \in {"updateLabel", "reorderLabels"} -> "labels"

\* the local edit of this step got as far as its write
LocalEditWrote ==
    /\ lastCall'.op \in HistoryPaths
    /\ lastCall'.op = "moveTaskBetweenSections" => ~thrown'
    /\ lastCall'.op = "reorderTaskInView" => HasId(tasks, "t1") /\ ListedIn("p1", "t1")
    /\ lastCall'.op = "reorderLabels" => lastCall'.args[1] # lastCall'.args[2]

SelectionInputs == {{"t1"}, {"t1", "t3"}, {"t2", "t0"}, {"t0"}}

QBulkActions ==
    \E action \in {"complete", "delete", "archive"}, ids \in SelectionInputs :
        CallView("bulkActions", <<action, ids>>, bulkActionsAtom(action, ids))

QUndo == CallView("undo", <<>>, undoAtom)

QRedo == CallView("redo", <<>>, redoAtom)

NextBulk ==
    \/ QBulkActions
    \/ QUndo
    \/ QRedo

SpecBulk == Init /\ [][NextBulk]_vars

\* the fields of a task other than the given ones are the same in t and u
SameExcept(t, u, fields) ==
    /\ DOMAIN t = DOMAIN u
    /\ \A f \in DOMAIN t \ fields : t[f] = u[f]

\* C26: a bulk action changes the selected tasks only: 'complete' makes them
\* completed with a completion timestamp and status "completed", 'archive'
\* gives them status "archived" and keeps their completed flag, 'delete'
\* removes them; the other tasks, the projects and the labels stay as they
\* were.
C26_BulkActionsSelectedOnly ==
    [][ lastCall'.op = "bulkActions" =>
          LET action == lastCall'.args[1]
              ids == lastCall'.args[2]
          IN
          /\ projects' = projects
          /\ labels' = labels
          /\ action \in {"complete", "archive"} =>
                /\ Len(tasks') = Len(tasks)
                /\ \A i \in DOMAIN tasks :
                      /\ tasks[i].id \notin ids => tasks'[i] = tasks[i]
                      /\ (tasks[i].id \in ids /\ action = "complete") =>
                            /\ tasks'[i].completed
                            /\ tasks'[i].completedAt # None
                            /\ tasks'[i].status = "completed"
                            /\ SameExcept(tasks'[i], tasks[i],
                                          {"completed", "completedAt", "status"})
                      /\ (tasks[i].id \in ids /\ action = "archive") =>
                            /\ tasks'[i].status = "archived"
                            /\ SameExcept(tasks'[i], tasks[i], {"status"})
          /\ action = "delete" =>
                tasks' = SelectSeq(tasks, LAMBDA t : t.id \notin ids)
      ]_vars

\* t1 and t3 were archived after t1 had been completed: t1 and t3 are
\* archived and completed, t2 is as it was
C26_Witness ==
    /\ lastCall = [op |-> "bulkActions", args |-> <<"archive", {"t1", "t3"}>>]
    /\ FindById(tasks, "t1").status = "archived" /\ FindById(tasks, "t1").completed
    /\ FindById(tasks, "t3").status = "archived"
    /\ FindById(tasks, "t2").status = "active"
    /\ Len(tasksHistory.undo) = 2

\* ------------------------------------------------------------------------
\* SpecReorder: reorders within a section with indexes inside and outside
\* the list, between moves across sections and undo
\* ------------------------------------------------------------------------
ReorderTaskInputs == {"t1", "t2", "t3", "t0"}

ReorderIndexInputs == {-1, 0, 1, 2, 5}

OMoveTask ==
    \E t \in ReorderTaskInputs, v \in ViewIdInputs, to \in ReorderIndexInputs :
        CallView("moveTask", <<t, v, to>>, moveTaskAtom(t, v, Some(0), Some(to)))

OReorderTaskInView ==
    \E t \in ReorderTaskInputs, v \in ViewIdInputs, to \in ReorderIndexInputs :
        CallView("reorderTaskInView", <<t, v, to>>, reorderTaskInViewAtom(t, v, 0, to))

OMoveTaskBetweenSections ==
    \E t \in ReorderTaskInputs, s \in SectionIdInputs, pos \in PositionInputs :
        CallView("moveTaskBetweenSections", <<t, s, "p1", pos>>,
                 moveTaskBetweenSectionsAtom(t, s, "p1", pos))

OUndo == CallView("undo", <<>>, undoAtom)

NextReorder ==
    \/ OMoveTask
    \/ OReorderTaskInView
    \/ OMoveTaskBetweenSections
    \/ OUndo

SpecReorder == Init /\ [][NextReorder]_vars

\* the section the reorder of taskId in viewId works on: section j of project p
ReorderTarget(p, j, viewId, taskId) ==
    /\ projects[p].id = ResolveProjectId(viewId, taskId)
    /\ taskId \in Range(projects[p].sections[j].items)
    /\ \A k \in 1..(j - 1) : taskId \notin Range(projects[p].sections[k].items)

\* C27: a reorder within a section, with any toIndex, leaves a permutation of
\* the section's former items with the moved task at toIndex clamped to the
\* valid range and the other ids in their former order; the other sections,
\* the other projects and the tasks are unchanged.
C27_ReorderWithinSection ==
    [][ lastCall'.op \in {"reorderTaskInView", "moveTask"} =>
          LET taskId == lastCall'.args[1]
              viewId == lastCall'.args[2]
              toIndex == lastCall'.args[3]
          IN
          /\ tasks' = tasks
          /\ DOMAIN projects' = DOMAIN projects
          /\ \A p \in DOMAIN projects :
                /\ [projects'[p] EXCEPT !.sections = projects[p].sections] = projects[p]
                /\ DOMAIN projects'[p].sections = DOMAIN projects[p].sections
                /\ \A j \in DOMAIN projects[p].sections :
                      LET old == projects[p].sections[j]
                          new == projects'[p].sections[j]
                          at == Max(0, Min(toIndex, Len(old.items) - 1))
                      IN
                      IF ReorderTarget(p, j, viewId, taskId)
                      THEN /\ [new EXCEPT !.items = old.items] = old
                           /\ Len(new.items) = Len(old.items)
                           /\ new.items[at + 1] = taskId
                           /\ Without(new.items, taskId) = Without(old.items, taskId)
                      ELSE new = old
      ]_vars

\* t3, last of three in section A, was sent to index -1 and is now first
C27_Witness ==
    /\ lastCall = [op |-> "reorderTaskInView", args |-> <<"t3", "p1", -1>>]
    /\ ItemsOf(projects, "p1", "sA") = <<"t3", "t1", "t2">>
    /\ ItemsOf(projects, "p1", "sB") = <<>>
    /\ Len(projectsHistory.undo) = 2

\* the sections of the project that list taskId
SectionsListing(ps, projectId, taskId) ==
    {j \in DOMAIN FindById(ps, projectId).sections :
        taskId \in Range(FindById(ps, projectId).sections[j].items)}

\* C28: a move between sections of an existing task in an existing project,
\* whatever newSectionId is passed, leaves a task that was in one of the
\* project's sections in exactly one of the project's sections.
C28_MembershipPreserved ==
    [][ (/\ lastCall'.op = "moveTaskBetweenSections"
         /\ HasId(tasks, lastCall'.args[1])
         /\ HasId(projects, lastCall'.args[3])
         /\ SectionsListing(projects, lastCall'.args[3], lastCall'.args[1]) # {})
        => Cardinality(SectionsListing(projects', lastCall'.args[3], lastCall'.args[1])) = 1
      ]_vars

\* the same for a newSectionId that is a section of the project
MembershipPreservedKnownSection ==
    [][ (/\ lastCall'.op = "moveTaskBetweenSections"
         /\ HasId(tasks, lastCall'.args[1])
         /\ HasId(projects, lastCall'.args[3])
         /\ \E j \in DOMAIN FindById(projects, lastCall'.args[3]).sections :
               FindById(projects, lastCall'.args[3]).sections[j].id = lastCall'.args[2]
         /\ SectionsListing(projects, lastCall'.args[3], lastCall'.args[1]) # {})
        => Cardinality(SectionsListing(projects', lastCall'.args[3], lastCall'.args[1])) = 1
      ]_vars

\* ------------------------------------------------------------------------
\* SpecIntegrity: the section edits, bulk delete and the combined undo / redo
\* ------------------------------------------------------------------------
IntegrityTaskInputs == {"t1", "t2", "task-1"}

IAddTaskToView ==
    /\ nextId <= MaxNewIds
    /\ \E d \in {x \in TaskDataInputs : x.sectionId = NULL}, pos \in {None, Some(0)} :
          CallView("addTaskToView", <<d.projectId, pos>>, addTaskToViewAtom(d, "p1", pos))

IReorderTaskInView ==
    \E t \in IntegrityTaskInputs, to \in ViewIndexInputs :
        CallView("reorderTaskInView", <<t, "p1", to>>, reorderTaskInViewAtom(t, "p1", 0, to))

IMoveTaskBetweenSections ==
    \E t \in IntegrityTaskInputs :
        CallView("moveTaskBetweenSections", <<t, "sB", "p1", None>>,
                 moveTaskBetweenSectionsAtom(t, "sB", "p1", None))

IRemoveTaskFromView ==
    \E t \in IntegrityTaskInputs :
        CallView("removeTaskFromView", <<t, "p1">>, removeTaskFromViewAtom(t, "p1"))

IBulkDelete ==
    \E ids \in {{"t1"}, {"t2", "task-1"}} :
        CallView("bulkActions", <<"delete", ids>>, bulkActionsAtom("delete", ids))

IUndo == CallView("undo", <<>>, undoAtom)

IRedo == CallView("redo", <<>>, redoAtom)

NextIntegrity ==
    \/ IAddTaskToView
    \/ IReorderTaskInView
    \/ IMoveTaskBetweenSections
    \/ IRemoveTaskFromView
    \/ IBulkDelete
    \/ IUndo
    \/ IRedo

SpecIntegrity == Init /\ [][NextIntegrity]_vars

\* the ids of the tasks stored at the start
StoredAtStart == {"t1", "t2", "t3"}

\* every id listed in a section's items is the id of a stored task
ItemsReferToTasks ==
    \A p \in DOMAIN projects : \A j \in DOMAIN projects[p].sections :
        \A id \in Range(projects[p].sections[j].items) : HasId(tasks, id)

\* every stored task that addTaskToView created for an existing project with
\* a default section is listed in one of that project's sections
AddedTasksListed ==
    \A i \in DOMAIN tasks :
        LET projectId == IF tasks[i].projectId = NULL THEN INBOX_PROJECT_ID
                         ELSE tasks[i].projectId
        IN  (/\ tasks[i].id \notin StoredAtStart
             /\ HasId(projects, projectId)
             /\ getDefaultSectionId(FindById(projects, projectId)) # NULL)
            => InSomeSection(FindById(projects, projectId), tasks[i].id)

\* C29: in every state reached by addTaskToView, reorderTaskInView,
\* moveTaskBetweenSections, removeTaskFromView, bulk delete, undo and redo,
\* every id listed in a section refers to a stored task, and every task added
\* by addTaskToView to an existing project with a default section is listed
\* in one of that project's sections.
C29_ReferentialIntegrity == ItemsReferToTasks /\ AddedTasksListed

\* ------------------------------------------------------------------------
\* tasks.ts: toggleTaskAtom, in the steps its await separates
\* ------------------------------------------------------------------------
\* variant: the call always sends completed: true
toggleTaskStartCompletes(taskId) ==
    /\ thrown' = FALSE
    /\ UNCHANGED <<projects, labels, tasksHistory, projectsHistory, labelsHistory,
                   lastOperation, nextId, today, pendingAdds, pendingSections,
                   pendingDeletes, returned>>
    /\ IF ~HasId(tasks, taskId)
       THEN UNCHANGED <<tasks, sent, effects, inflight>>
       ELSE LET updateRequest == [id |-> taskId, completed |-> TRUE]
            IN /\ sent' = NormalizedUpdates(<<updateRequest>>)
               /\ tasks' = ApplyUpdates(tasks, NormalizedUpdates(<<updateRequest>>))
               /\ effects' = Append(effects, <<"updateTasksMutation", taskId>>)
               /\ inflight' = Append(inflight, [op |-> "toggleTask", taskId |-> taskId,
                                                willBeCompleted |-> TRUE])

\* up to updateTasksMutation.mutateAsync(normalizedUpdates): the flag is read,
\* its negation is sent and the mutation patches the stored task at once
toggleTaskStart(taskId) ==
    /\ thrown' = FALSE
    /\ UNCHANGED <<projects, labels, tasksHistory, projectsHistory, labelsHistory,
                   lastOperation, nextId, today, pendingAdds, pendingSections,
                   pendingDeletes, returned>>
    /\ IF ~HasId(tasks, taskId)
       THEN UNCHANGED <<tasks, sent, effects, inflight>>
       ELSE LET wasCompleted == FindById(tasks, taskId).completed
                willBeCompleted == ~wasCompleted
                updateRequest == [id |-> taskId, completed |-> willBeCompleted]
            IN /\ sent' = NormalizedUpdates(<<updateRequest>>)
               /\ tasks' = ApplyUpdates(tasks, NormalizedUpdates(<<updateRequest>>))
               /\ effects' = Append(effects, <<"updateTasksMutation", taskId>>)
               /\ inflight' = Append(inflight, [op |-> "toggleTask", taskId |-> taskId,
                                                willBeCompleted |-> willBeCompleted])

\* the update mutation resolves: the call records its operation
toggleTaskResolve(i) ==
    /\ inflight[i].op = "toggleTask"
    /\ inflight' = RemoveAt(inflight, i)
    /\ lastOperation' = <<IF inflight[i].willBeCompleted THEN "Completed task"
                          ELSE "Uncompleted task", inflight[i].taskId>>
    /\ thrown' = FALSE
    /\ UNCHANGED <<tasks, projects, labels, tasksHistory, projectsHistory, labelsHistory,
                   nextId, today, sent, pendingAdds, pendingSections, pendingDeletes,
                   effects, returned>>

\* ------------------------------------------------------------------------
\* SpecToggle: toggles whose updates resolve in any order
\* ------------------------------------------------------------------------
ToggleInputs == {"t1", "t2", "t3", "t0"}

TToggleTaskStart ==
    \E t \in ToggleInputs : CallAdd("toggleTask", <<t>>, toggleTaskStart(t))

TToggleTaskResolve ==
    \E i \in DOMAIN inflight : CallAdd("toggleTaskResolve", <<i>>, toggleTaskResolve(i))

NextToggle ==
    \/ TToggleTaskStart
    \/ TToggleTaskResolve

SpecToggle == Init /\ [][NextToggle]_vars

\* the tasks completed at the start
CompletedAtStart == {"t3"}

\* the number of update calls toggleTask has made for the task
TogglesOf(taskId) ==
    Cardinality({k \in DOMAIN effects : effects[k] = <<"updateTasksMutation", taskId>>})

\* the toggles of the task whose update has not resolved
Unresolved(taskId) ==
    {i \in DOMAIN inflight : inflight[i].op = "toggleTask" /\ inflight[i].taskId = taskId}

====
